---- MODULE Spec2Model ----
(***************************************************************************)
(* build-cleaner: the pruning walker (core/src/search.rs), the delete      *)
(* planner, safety validator and executor (core/src/delete.rs) and the     *)
(* interactive executor (cli/src/executor.rs).                             *)
(*                                                                         *)
(* A path is the sequence of its normal components below the root          *)
(* directory: <<>> is "/", <<"usr","bin">> is "/usr/bin".  Every path of   *)
(* the model is absolute, so Path::components() yields the root component  *)
(* followed by the normal ones.                                            *)
(***************************************************************************)
EXTENDS Integers, Sequences, FiniteSets, TLC

VARIABLES
    \* ---- the filesystem and the platform (the environment)
    os,                  \* "unix" | "windows": the target the crate is built for
    fsys,                \* the set of paths that exist
    listing,             \* the order in which each directory lists its entries
    \* ---- SearchEngine::search_with_progress
    paths,               \* the root paths, in call order
    config,              \* Config: clean.folders, clean.files, exclude, options
    path_idx,            \* index of the root being walked (for path in paths)
    start,               \* walkdir IntoIter.start is Some: the root is not yet taken
    stack,               \* walkdir IntoIter.stack_list: unread children per open dir
    matched_folders,     \* the HashSet shared with the filter closure
    folders,             \* SearchResult.folders
    files,               \* SearchResult.files
    total_size,          \* SearchResult.total_size
    total_dirs_scanned,  \* SearchResult.total_dirs_scanned
    total_files_scanned, \* SearchResult.total_files_scanned
    visited,             \* history: the entries counted in a scanned counter, in order
    progress,            \* history: the arguments of each progress callback call
    \* ---- DeleteEngine / CommandExecutor::execute_deletion_interactive
    sr,                  \* the SearchResult handed to the planner
    plan,                \* DeletePlan: files, dirs
    mode,                \* "dry" | "real" | "interactive"
    item,                \* number of plan items already processed (files, then dirs)
    deleted_files,       \* DeleteResult.deleted_files
    deleted_dirs,        \* DeleteResult.deleted_dirs
    failed_files,        \* DeleteResult.failed_files: <<path, cause>>
    failed_dirs,         \* DeleteResult.failed_dirs: <<path, cause>>
    freed,               \* DeleteResult.total_size
    confirm_all,         \* the interactive executor's confirm_all flag
    outcome,             \* "running" | "ok" | the error the executor returned
    events,              \* history: safety checks, prompts and removals, in order
    answers,             \* history: what the decision function answered, in order
    \* ---- CommandExecutor::execute
    args,                \* Args: config_file, clean_patterns (paths is above, the
                         \* flags dry_run and interactive are the mode)
    reports,             \* history: what the earlier runs found and reported
    \* ---- SearchEngine::match_pattern, called on its own
    m_pattern,           \* the pattern, as characters
    m_name,              \* the base name, as characters
    m_result,            \* what match_pattern returned
    pc                   \* "search" | "searched" | "plan" | "exec" | "done" |
                         \* "match" | "matched"

search_vars == <<paths, config, path_idx, start, stack, matched_folders, folders,
                 files, total_size, total_dirs_scanned, total_files_scanned, visited,
                 progress>>

delete_vars == <<sr, plan, mode, item, deleted_files, deleted_dirs, failed_files,
                 failed_dirs, freed, confirm_all, outcome, events, answers>>

match_vars == <<m_pattern, m_name, m_result>>

vars == <<os, args, fsys, listing, search_vars, delete_vars, reports, match_vars, pc>>

None == "None"

(***************************************************************************)
(* Bounds of the model.                                                    *)
(***************************************************************************)
\* at most this many root paths in one search
MaxRoots == 2
\* at most this many items (files plus folders) in a search result to delete
MaxItems == 3

(***************************************************************************)
(* Sequence helpers.                                                       *)
(***************************************************************************)
SeqsUpTo(S, n) == UNION {[1..k -> S] : k \in 0..n}

Range(s) == {s[i] : i \in 1..Len(s)}

\* the sum of f[x] over the elements x of S
RECURSIVE SumOver(_, _)
SumOver(S, f) ==
    IF S = {} THEN 0
    ELSE LET x == CHOOSE y \in S : TRUE IN f[x] + SumOver(S \ {x}, f)

(***************************************************************************)
(* std::path::Path.                                                        *)
(***************************************************************************)
\* Path::starts_with: whole components only
starts_with(path, base) ==
    /\ Len(base) <= Len(path)
    /\ SubSeq(path, 1, Len(base)) = base

\* Path::components().count() of an absolute path: the root plus the normal ones
components_count(path) == Len(path) + 1

\* Path::file_name(): the last normal component ("" for "/", via unwrap_or(""))
file_name(path) == IF path = <<>> THEN "" ELSE path[Len(path)]

parent(path) == IF path = <<>> THEN <<>> ELSE SubSeq(path, 1, Len(path) - 1)

(***************************************************************************)
(* The filesystem the runs start from.  /usr and /etc are protected system *)
(* directories, /a is a project whose artefacts are to be deleted, /tmp    *)
(* holds the two projects the walker scans:                                *)
(*    /tmp/x/node_modules/sub/file.txt                                     *)
(*    /tmp/y/app.log   /tmp/y/dist/node_modules/b.txt                      *)
(*    /tmp/y/dist/main.js                                                  *)
(* /a/link is a symbolic link to /usr/bin; /a/keep.log cannot be removed   *)
(* (the removal is answered with "permission denied").  /m is a repository *)
(* of ten packages, each with its own node_modules:                        *)
(*    /m/p0/node_modules/b.txt   /m/p1/node_modules  ...  /m/p9/node_modules *)
(*    /m/zz/app.log   /m/zz/q                                              *)
(* /f is a project with entries the walker cannot read: /f/b.txt is a      *)
(* symbolic link whose target is gone, /f/node_modules is a directory that *)
(* cannot be listed (fs::read_dir answers "permission denied"):            *)
(*    /f/app.log   /f/b.txt -> ?   /f/node_modules (unreadable)            *)
(*    /f/sub/file.txt                                                      *)
(* /etc holds two configuration files, bc.json (well-formed) and bad.json  *)
(* (not JSON), and a socket, /etc/sock.                                    *)
(***************************************************************************)
M == <<"m">>

F == <<"f">>

Dist == <<"tmp", "y", "dist">>

Packages == {"p0", "p1", "p2", "p3", "p4", "p5", "p6", "p7", "p8", "p9"}

DirNodes ==
    { <<>>, <<"usr">>, <<"usr", "bin">>, <<"etc">>,
      <<"a">>, <<"a", "b">>, <<"a", "b", "c">>, <<"a", "b", "c", "d">>,
      <<"tmp">>, <<"tmp", "x">>, <<"tmp", "x", "node_modules">>,
      <<"tmp", "x", "node_modules", "sub">>,
      <<"tmp", "y">>, <<"tmp", "y", "dist">>, <<"tmp", "y", "dist", "node_modules">>,
      M, <<"m", "zz">>, <<"m", "zz", "q">>,
      F, <<"f", "node_modules">>, <<"f", "sub">> }
    \cup { <<"m", p>> : p \in Packages }
    \cup { <<"m", p, "node_modules">> : p \in Packages }

FileNodes ==
    { <<"etc", "app.log">>,
      <<"a", "file1.txt">>, <<"a", "keep.log">>, <<"a", "b", "c", "in.txt">>,
      <<"tmp", "x", "node_modules", "sub", "file.txt">>,
      <<"tmp", "y", "app.log">>, <<"tmp", "y", "dist", "main.js">>,
      <<"tmp", "y", "dist", "node_modules", "b.txt">>,
      <<"m", "p0", "node_modules", "b.txt">>, <<"m", "zz", "app.log">>,
      <<"f", "app.log">>, <<"f", "sub", "file.txt">>,
      <<"etc", "bc.json">>, <<"etc", "bad.json">> }

LinkNodes == { <<"a", "link">>, <<"f", "b.txt">> }

LinkTarget(p) ==
    IF p = <<"f", "b.txt">> THEN <<"f", "nowhere.txt">> ELSE <<"usr", "bin">>

\* the directories fs::read_dir cannot open
Unreadable == { <<"f", "node_modules">> }

LockedNodes == { <<"a", "keep.log">> }

\* what is neither a directory nor a regular file nor a link
SocketNodes == { <<"etc", "sock">> }

InitialFs == DirNodes \cup FileNodes \cup LinkNodes \cup SocketNodes

\* a name that is in no directory
Gone == <<"a", "gone.txt">>

AllPaths == InitialFs \cup {Gone}

\* fs::Metadata::len() of a regular file
FileLen(p) ==
    CASE p = <<"a", "file1.txt">> -> 12
      [] p = <<"a", "b", "c", "in.txt">> -> 14
      [] p = <<"tmp", "y", "app.log">> -> 12
      [] p = <<"tmp", "y", "dist", "main.js">> -> 12
      [] p = <<"tmp", "y", "dist", "node_modules", "b.txt">> -> 14
      [] p = <<"tmp", "x", "node_modules", "sub", "file.txt">> -> 5
      [] OTHER -> 3

\* whole days since fs::Metadata::modified(), as an Option
AgeDays(p) ==
    CASE p = <<"tmp", "y", "app.log">> -> <<0>>
      [] OTHER -> <<2>>

is_dir(fs, p) == p \in fs /\ p \in DirNodes

is_file(fs, p) == p \in fs /\ p \in FileNodes

\* the entries fs::read_dir(d) lists
read_dir(fs, d) == {p \in fs : p # <<>> /\ parent(p) = d}

\* fs::metadata(p), which follows a symbolic link: the kind of what p names,
\* or "err" when nothing is there
metadata(fs, p) ==
    LET t == IF p \in LinkNodes THEN LinkTarget(p) ELSE p
    IN IF p \in fs /\ is_dir(fs, t) THEN "dir"
       ELSE IF p \in fs /\ is_file(fs, t) THEN "file"
       ELSE IF p \in fs /\ t \in fs THEN "other"
       ELSE "err"

\* walkdir: the item that stands for the error of opening the directory d;
\* IntoIter::push keeps the error of fs::read_dir in the DirList of d, and the
\* iterator yields it, once, after the entry of d itself
WalkError(d) == Append(d, "<error>")

WalkErrors == {WalkError(d) : d \in Unreadable}

\* walkdir DirList: what the iterator yields for the opened directory d
DirList(fs, d) == IF d \in Unreadable THEN {WalkError(d)} ELSE read_dir(fs, d)

\* The order of a directory listing is the filesystem's: it is no function of
\* the names, and it stays what it is while the directory is not changed.
\* Each directory lists its entries in some order or in the reverse of it.
RECURSIVE SetToSeq(_)
SetToSeq(S) ==
    IF S = {} THEN <<>>
    ELSE LET x == CHOOSE y \in S : TRUE IN <<x>> \o SetToSeq(S \ {x})

Reverse(s) == [i \in 1..Len(s) |-> s[Len(s) + 1 - i]]

\* the listing in which the directories of R list in reverse
ListingOf(R) ==
    [d \in DirNodes |->
        IF d \in R THEN Reverse(SetToSeq(DirList(InitialFs, d)))
        ELSE SetToSeq(DirList(InitialFs, d))]

\* the directories at or below the roots that list more than one entry
Branching(roots) ==
    {d \in DirNodes : /\ \E i \in 1..Len(roots) : starts_with(d, roots[i])
                      /\ Cardinality(read_dir(InitialFs, d)) > 1}

Listings(roots) == {ListingOf(R) : R \in SUBSET Branching(roots)}

\* the position of the entry e in the listing of its directory
position(order, e) ==
    LET l == order[parent(e)] IN CHOOSE i \in 1..Len(l) : l[i] = e

(***************************************************************************)
(* SearchEngine: pattern matching (search.rs 297-342).                     *)
(***************************************************************************)
\* str::chars().collect(): the characters of the names and patterns in use
Chars(s) ==
    CASE s = "" -> <<>>
      [] s = "x" -> <<"x">>
      [] s = "y" -> <<"y">>
      [] s = "tmp" -> <<"t", "m", "p">>
      [] s = "sub" -> <<"s", "u", "b">>
      [] s = "dist" -> <<"d", "i", "s", "t">>
      [] s = "dist/" -> <<"d", "i", "s", "t", "/">>
      [] s = "node_modules" ->
             <<"n", "o", "d", "e", "_", "m", "o", "d", "u", "l", "e", "s">>
      [] s = "file.txt" -> <<"f", "i", "l", "e", ".", "t", "x", "t">>
      [] s = "b.txt" -> <<"b", ".", "t", "x", "t">>
      [] s = "app.log" -> <<"a", "p", "p", ".", "l", "o", "g">>
      [] s = "main.js" -> <<"m", "a", "i", "n", ".", "j", "s">>
      [] s = "m" -> <<"m">>
      [] s = "f" -> <<"f">>
      [] s = "q" -> <<"q">>
      [] s = "zz" -> <<"z", "z">>
      [] s = "p0" -> <<"p", "0">>
      [] s = "p1" -> <<"p", "1">>
      [] s = "p2" -> <<"p", "2">>
      [] s = "p3" -> <<"p", "3">>
      [] s = "p4" -> <<"p", "4">>
      [] s = "p5" -> <<"p", "5">>
      [] s = "p6" -> <<"p", "6">>
      [] s = "p7" -> <<"p", "7">>
      [] s = "p8" -> <<"p", "8">>
      [] s = "p9" -> <<"p", "9">>
      [] s = "sub/" -> <<"s", "u", "b", "/">>
      [] s = "build" -> <<"b", "u", "i", "l", "d">>
      [] s = "target" -> <<"t", "a", "r", "g", "e", "t">>
      [] s = ".next" -> <<".", "n", "e", "x", "t">>
      [] s = "__pycache__" -> <<"_", "_", "p", "y", "c", "a", "c", "h", "e", "_", "_">>
      [] s = "vendor" -> <<"v", "e", "n", "d", "o", "r">>
      [] s = "bin" -> <<"b", "i", "n">>
      [] s = "*.pyc" -> <<"*", ".", "p", "y", "c">>
      [] s = "d?st" -> <<"d", "?", "s", "t">>
      [] s = "*.txt" -> <<"*", ".", "t", "x", "t">>
      [] s = "app.???" -> <<"a", "p", "p", ".", "?", "?", "?">>

\* indices are 0-based as in the source: pattern[p_idx] is p[p_idx + 1]
RECURSIVE glob_match_recursive(_, _, _, _)
glob_match_recursive(pattern, text, p_idx, t_idx) ==
    IF p_idx >= Len(pattern) THEN t_idx >= Len(text)
    ELSE IF pattern[p_idx + 1] = "*"
         THEN \E i \in t_idx..Len(text) :
                  glob_match_recursive(pattern, text, p_idx + 1, i)
    ELSE IF pattern[p_idx + 1] = "?"
         THEN /\ t_idx < Len(text)
              /\ glob_match_recursive(pattern, text, p_idx + 1, t_idx + 1)
    ELSE /\ t_idx < Len(text)
         /\ text[t_idx + 1] = pattern[p_idx + 1]
         /\ glob_match_recursive(pattern, text, p_idx + 1, t_idx + 1)

glob_match(pattern, text) == glob_match_recursive(pattern, text, 0, 0)

\* str::trim_end_matches('/')
RECURSIVE trim_end_matches_slash(_)
trim_end_matches_slash(cs) ==
    IF cs # <<>> /\ cs[Len(cs)] = "/"
    THEN trim_end_matches_slash(SubSeq(cs, 1, Len(cs) - 1))
    ELSE cs

\* over character sequences
match_chars(pattern, name) ==
    IF pattern # <<>> /\ pattern[Len(pattern)] = "/"
    THEN trim_end_matches_slash(pattern) = name
    ELSE glob_match(pattern, name)

match_pattern(pattern, name) == match_chars(Chars(pattern), Chars(name))

\* for pattern in list { if match_pattern(pattern, name) { ...; break } }
matches_any(patterns, name) ==
    \E i \in 1..Len(patterns) : match_pattern(patterns[i], name)

(***************************************************************************)
(* SearchEngine: the filters (search.rs 352-424) and calculate_dir_size.   *)
(***************************************************************************)
\* mutant: only the excluded path itself is skipped, not what lies under it
should_exclude_exact(path, excludes) ==
    \E i \in 1..Len(excludes) : path = excludes[i]

should_exclude(path, excludes) ==
    \E i \in 1..Len(excludes) : starts_with(path, excludes[i])

\* mutant: the prefix test is taken the wrong way round
is_in_matched_folder_swapped(path, matched) ==
    \E m \in matched : path # m /\ starts_with(m, path)

is_in_matched_folder(path, matched) ==
    \E m \in matched : path # m /\ starts_with(path, m)

\* mutant: a size equal to a bound is out of bounds
check_size_strict(size, min_size, max_size) ==
    /\ (min_size # <<>> => size > min_size[1])
    /\ (max_size # <<>> => size < max_size[1])

\* an Option<T> is <<>> (None) or <<v>> (Some(v))
check_size(size, min_size, max_size) ==
    /\ (min_size # <<>> => ~(size < min_size[1]))
    /\ (max_size # <<>> => ~(size > max_size[1]))

\* age_days is None when modified() or elapsed() fails
check_age(age_days, min_age_days, max_age_days) ==
    IF (min_age_days = <<>> /\ max_age_days = <<>>) \/ age_days = <<>> THEN TRUE
    ELSE /\ (min_age_days # <<>> => ~(age_days[1] < min_age_days[1]))
         /\ (max_age_days # <<>> => ~(age_days[1] > max_age_days[1]))

\* mutant: only the files directly in dir_path are summed
calculate_dir_size_shallow(fs, dir_path) ==
    SumOver({p \in fs : p \in FileNodes /\ parent(p) = dir_path},
            [p \in FileNodes |-> FileLen(p)])

\* WalkDir::new(dir_path): the sum of metadata().len() over the regular files
\* at and below dir_path; nothing for an entry that cannot be read
calculate_dir_size(fs, dir_path) ==
    SumOver({p \in fs : p \in FileNodes /\ starts_with(p, dir_path)},
            [p \in FileNodes |-> FileLen(p)])

\* impl From<&Options> for SearchOptions (max_depth: None) and the max_depth
\* handed to WalkDir: usize::MAX when recursive, else 1
Unlimited == 1000000

max_depth(options) == IF options.recursive THEN Unlimited ELSE 1

\* the progress callback fires every 1000 files, every 100 directories, and
\* whenever the number of matched folders is a positive multiple of 10
ProgressEveryFiles == 1000

ProgressEveryDirs == 100

ProgressEveryFolders == 10

(***************************************************************************)
(* The inputs of a search.                                                 *)
(***************************************************************************)
RootChoices ==
    { <<"tmp">>, <<"tmp", "x">>, <<"tmp", "x", "node_modules", "sub">>, <<"tmp", "y">> }

RootLists == SeqsUpTo(RootChoices, MaxRoots) \ {<<>>}

FolderPatternChoices ==
    { <<>>, <<"node_modules">>, <<"dist/", "node_modules", "sub">>, <<"d?st">> }

FilePatternChoices == { <<>>, <<"*.txt", "app.???">> }

ExcludeChoices ==
    { <<>>, << <<"tmp", "x", "node_modules">> >>, << <<"tmp", "y", "dist">> >>,
      << <<"tmp", "y", "dist", "node_modules">> >> }

OptionChoices ==
    { [recursive |-> TRUE, follow_symlinks |-> FALSE, min_size |-> <<>>,
       max_size |-> <<>>, min_age_days |-> <<>>, max_age_days |-> <<>>],
      [recursive |-> FALSE, follow_symlinks |-> FALSE, min_size |-> <<>>,
       max_size |-> <<>>, min_age_days |-> <<>>, max_age_days |-> <<>>],
      [recursive |-> TRUE, follow_symlinks |-> FALSE, min_size |-> <<5>>,
       max_size |-> <<12>>, min_age_days |-> <<1>>, max_age_days |-> <<>>] }

ConfigChoices ==
    [folders : FolderPatternChoices, files : FilePatternChoices,
     exclude : ExcludeChoices, options : OptionChoices]

\* match_pattern is not called on its own
MatchIdle ==
    /\ m_pattern = <<>>
    /\ m_name = <<>>
    /\ m_result = None

\* the delete side is idle during a search
DeleteIdle ==
    /\ sr = [folders |-> <<>>, files |-> <<>>, total_size |-> 0]
    /\ plan = [files |-> <<>>, dirs |-> <<>>]
    /\ mode = None
    /\ item = 0
    /\ deleted_files = <<>>
    /\ deleted_dirs = <<>>
    /\ failed_files = <<>>
    /\ failed_dirs = <<>>
    /\ freed = 0
    /\ confirm_all = FALSE
    /\ outcome = None
    /\ events = <<>>
    /\ answers = <<>>

\* search.rs 109-118: the state search_with_progress starts from
SearchInit ==
    /\ pc = "search"
    /\ os = "unix"
    /\ args = None
    /\ fsys = InitialFs
    /\ paths \in RootLists
    /\ listing \in Listings(paths)
    /\ config \in ConfigChoices
    /\ path_idx = 1
    /\ start = TRUE
    /\ stack = <<>>
    /\ matched_folders = {}
    /\ folders = <<>>
    /\ files = <<>>
    /\ total_size = 0
    /\ total_dirs_scanned = 0
    /\ total_files_scanned = 0
    /\ visited = <<>>
    /\ progress = <<>>
    /\ DeleteIdle
    /\ reports = <<>>
    /\ MatchIdle

(***************************************************************************)
(* walkdir: IntoIter::next, handle_entry and FilterEntry::next, as driven  *)
(* by walk_path_with_filter (search.rs 265-287).  The root is yielded      *)
(* first; a directory is opened (pushed) when it is yielded, its children  *)
(* are read in the order the directory lists them; a frame deeper than     *)
(* max_depth is popped unread.                                             *)
(***************************************************************************)
\* the entries the iterator may read next: the root, or what is left unread
\* of the innermost open directory
Unread ==
    IF start THEN {paths[path_idx]}
    ELSE IF stack = <<>> THEN {}
    ELSE stack[Len(stack)]

\* e is the entry the iterator reads next
NextEntry(e) ==
    /\ pc = "search"
    /\ IF start THEN e = paths[path_idx]
       ELSE /\ stack # <<>>
            /\ Len(stack) <= max_depth(config.options)
            /\ e \in stack[Len(stack)]
            /\ \A q \in stack[Len(stack)] : position(listing, e) <= position(listing, q)

\* the stack once e is read; a directory is opened unless the filter rejected
\* it (handle_entry pushes, FilterEntry calls skip_current_dir)
Taken(e, descend) ==
    LET rest == IF start THEN <<>>
                ELSE [stack EXCEPT ![Len(stack)] = @ \ {e}]
    IN IF descend /\ is_dir(fsys, e) THEN Append(rest, DirList(fsys, e)) ELSE rest

\* search.rs 124-127: the filter closure handed to filter_entry
filter(e) == ~is_in_matched_folder(e, matched_folders)

\* mutant: the scanned counters are handed over in the wrong order
Callback_swapped(f_scanned, d_scanned, f_matched, d_matched, size) ==
    Append(progress, <<d_scanned, f_scanned, f_matched, d_matched, size>>)

\* cb(total_files_scanned, total_dirs_scanned, files.len(), folders.len(), total_size)
Callback(f_scanned, d_scanned, f_matched, d_matched, size) ==
    Append(progress, <<f_scanned, d_scanned, f_matched, d_matched, size>>)

\* the entry lies under a matched folder: it is not yielded and not descended
WalkFiltered ==
    \E e \in Unread :
        /\ NextEntry(e)
        /\ e \notin WalkErrors
        /\ ~filter(e)
        /\ start' = FALSE
        /\ stack' = Taken(e, FALSE)
        /\ UNCHANGED <<os, args, listing, reports, match_vars,
                       fsys, paths, config, path_idx, matched_folders, folders,
                       files, total_size, total_dirs_scanned, total_files_scanned,
                       visited, progress, delete_vars, pc>>

\* search.rs 128-143: an error of the walk (FilterEntry hands it on without
\* asking the filter), an excluded entry, or one whose metadata cannot be read;
\* an entry that is neither a file nor a directory passes both branches
\* (145, 192) untouched
SkipEntry ==
    \E e \in Unread :
        /\ NextEntry(e)
        /\ \/ e \in WalkErrors
           \/ /\ filter(e)
              /\ \/ should_exclude(e, config.exclude)
                 \/ metadata(fsys, e) \notin {"file", "dir"}
        /\ start' = FALSE
        /\ stack' = Taken(e, TRUE)
        /\ UNCHANGED <<os, args, listing, reports, match_vars,
                       fsys, paths, config, path_idx, matched_folders, folders,
                       files, total_size, total_dirs_scanned, total_files_scanned,
                       visited, progress, delete_vars, pc>>

\* search.rs 145-191
VisitFile ==
    \E e \in Unread :
        /\ NextEntry(e)
        /\ filter(e)
        /\ e \notin WalkErrors
        /\ ~should_exclude(e, config.exclude)
        /\ metadata(fsys, e) = "file"
        /\ start' = FALSE
        /\ stack' = Taken(e, TRUE)
        /\ total_files_scanned' = total_files_scanned + 1
        /\ visited' = Append(visited, e)
        /\ LET size == FileLen(e)
               opt == config.options
               pass == /\ check_size(size, opt.min_size, opt.max_size)
                       /\ check_age(AgeDays(e), opt.min_age_days, opt.max_age_days)
               hit == pass /\ matches_any(config.files, file_name(e))
           IN /\ files' = IF hit THEN Append(files, e) ELSE files
              /\ total_size' = IF hit THEN total_size + size ELSE total_size
              /\ progress' =
                     IF total_files_scanned' % ProgressEveryFiles = 0
                     THEN Callback(total_files_scanned', total_dirs_scanned,
                                   Len(files'), Len(folders), total_size')
                     ELSE progress
        /\ UNCHANGED <<os, args, listing, reports, match_vars,
                       fsys, paths, config, path_idx, matched_folders, folders,
                       total_dirs_scanned, delete_vars, pc>>

\* search.rs 192-216
VisitDir ==
    \E e \in Unread :
        /\ NextEntry(e)
        /\ filter(e)
        /\ e \notin WalkErrors
        /\ ~should_exclude(e, config.exclude)
        /\ metadata(fsys, e) = "dir"
        /\ start' = FALSE
        /\ stack' = Taken(e, TRUE)
        /\ total_dirs_scanned' = total_dirs_scanned + 1
        /\ visited' = Append(visited, e)
        /\ LET hit == matches_any(config.folders, file_name(e))
           IN /\ matched_folders' = IF hit THEN matched_folders \cup {e}
                                     ELSE matched_folders
              /\ folders' = IF hit THEN Append(folders, e) ELSE folders
              /\ total_size' = IF hit THEN total_size + calculate_dir_size(fsys, e)
                                ELSE total_size
              /\ progress' =
                     IF \/ total_dirs_scanned' % ProgressEveryDirs = 0
                        \/ (folders' # <<>> /\ Len(folders') % ProgressEveryFolders = 0)
                     THEN Callback(total_files_scanned, total_dirs_scanned',
                                   Len(files), Len(folders'), total_size')
                     ELSE progress
        /\ UNCHANGED <<os, args, listing, reports, match_vars,
                       fsys, paths, config, path_idx, files, total_files_scanned,
                       delete_vars, pc>>

\* IntoIter::next: the open directory is exhausted, or deeper than max_depth
WalkPop ==
    /\ pc = "search"
    /\ ~start
    /\ stack # <<>>
    /\ stack[Len(stack)] = {} \/ Len(stack) > max_depth(config.options)
    /\ stack' = SubSeq(stack, 1, Len(stack) - 1)
    /\ UNCHANGED <<os, args, listing, reports, match_vars,
                   fsys, paths, config, path_idx, start, matched_folders, folders,
                   files, total_size, total_dirs_scanned, total_files_scanned,
                   visited, progress, delete_vars, pc>>

\* search.rs 120: the walk of one root is over, the next root begins
NextRoot ==
    /\ pc = "search"
    /\ ~start
    /\ stack = <<>>
    /\ path_idx < Len(paths)
    /\ path_idx' = path_idx + 1
    /\ start' = TRUE
    /\ UNCHANGED <<os, args, listing, reports, match_vars,
                   fsys, paths, config, stack, matched_folders, folders,
                   files, total_size, total_dirs_scanned, total_files_scanned,
                   visited, progress, delete_vars, pc>>

\* search.rs 220-226: Ok(SearchResult { .. })
SearchReturn ==
    /\ pc = "search"
    /\ ~start
    /\ stack = <<>>
    /\ path_idx = Len(paths)
    /\ pc' = "searched"
    /\ UNCHANGED <<os, args, fsys, listing, search_vars, delete_vars, reports, match_vars>>

SearchNext ==
    \/ WalkFiltered
    \/ SkipEntry
    \/ VisitFile
    \/ VisitDir
    \/ WalkPop
    \/ NextRoot
    \/ SearchReturn

SpecSearch == SearchInit /\ [][SearchNext]_vars

(***************************************************************************)
(* A search of the repository /m: enough directories match for the         *)
(* progress callback to be called.                                         *)
(***************************************************************************)
ProgressRootLists == SeqsUpTo({M, <<"m", "zz">>}, MaxRoots) \ {<<>>}

ProgressExcludes == { <<>>, << <<"m", "zz", "q">> >> }

ProgressConfigs ==
    [folders : FolderPatternChoices, files : FilePatternChoices,
     exclude : ProgressExcludes, options : OptionChoices]

ProgressInit ==
    /\ pc = "search"
    /\ os = "unix"
    /\ args = None
    /\ fsys = InitialFs
    /\ paths \in ProgressRootLists
    /\ listing \in Listings(paths)
    /\ config \in ProgressConfigs
    /\ path_idx = 1
    /\ start = TRUE
    /\ stack = <<>>
    /\ matched_folders = {}
    /\ folders = <<>>
    /\ files = <<>>
    /\ total_size = 0
    /\ total_dirs_scanned = 0
    /\ total_files_scanned = 0
    /\ visited = <<>>
    /\ progress = <<>>
    /\ DeleteIdle
    /\ reports = <<>>
    /\ MatchIdle

SpecProgress == ProgressInit /\ [][SearchNext]_vars

(***************************************************************************)
(* A search of the project /f, which holds a broken symbolic link and a    *)
(* directory that cannot be listed.                                        *)
(***************************************************************************)
FaultRootLists == SeqsUpTo({F, <<"f", "sub">>}, MaxRoots) \ {<<>>}

FaultExcludes == { <<>>, << <<"f", "sub">> >> }

FaultConfigs ==
    [folders : FolderPatternChoices, files : FilePatternChoices,
     exclude : FaultExcludes, options : OptionChoices]

FaultInit ==
    /\ pc = "search"
    /\ os = "unix"
    /\ args = None
    /\ fsys = InitialFs
    /\ paths \in FaultRootLists
    /\ listing \in Listings(paths)
    /\ config \in FaultConfigs
    /\ path_idx = 1
    /\ start = TRUE
    /\ stack = <<>>
    /\ matched_folders = {}
    /\ folders = <<>>
    /\ files = <<>>
    /\ total_size = 0
    /\ total_dirs_scanned = 0
    /\ total_files_scanned = 0
    /\ visited = <<>>
    /\ progress = <<>>
    /\ DeleteIdle
    /\ reports = <<>>
    /\ MatchIdle

SpecFaults == FaultInit /\ [][SearchNext]_vars

(***************************************************************************)
(* DeleteEngine::create_delete_plan (delete.rs 76-92).                     *)
(***************************************************************************)
\* x placed behind the elements at least as deep as x: a stable descending sort
\* keeps elements of equal depth in their original order
insert_by_depth(sorted, x) ==
    LET k == Cardinality({i \in 1..Len(sorted) :
                             components_count(sorted[i]) >= components_count(x)})
    IN SubSeq(sorted, 1, k) \o <<x>> \o SubSeq(sorted, k + 1, Len(sorted))

\* mutant: the comparison is a.1.cmp(&b.1), shallowest first
RECURSIVE sort_by_depth_asc(_)
sort_by_depth_asc(dirs) ==
    IF dirs = <<>> THEN <<>>
    ELSE LET rest == sort_by_depth_asc(SubSeq(dirs, 1, Len(dirs) - 1))
             x == dirs[Len(dirs)]
             k == Cardinality({i \in 1..Len(rest) :
                                  components_count(rest[i]) <= components_count(x)})
         IN SubSeq(rest, 1, k) \o <<x>> \o SubSeq(rest, k + 1, Len(rest))

\* dirs_with_depth.sort_by(|a, b| b.1.cmp(&a.1)): stable, deepest first
RECURSIVE sort_by_depth_desc(_)
sort_by_depth_desc(dirs) ==
    IF dirs = <<>> THEN <<>>
    ELSE insert_by_depth(sort_by_depth_desc(SubSeq(dirs, 1, Len(dirs) - 1)),
                         dirs[Len(dirs)])

\* mutant: the directories are planned in the order the search found them
create_delete_plan_unsorted(search_result) ==
    [files |-> search_result.files, dirs |-> search_result.folders]

create_delete_plan(search_result) ==
    [files |-> search_result.files, dirs |-> sort_by_depth_desc(search_result.folders)]

(***************************************************************************)
(* DeleteEngine::check_safety (delete.rs 101-126).                         *)
(***************************************************************************)
\* Path::canonicalize: every component must exist, ".." and "." are resolved,
\* a symbolic link is replaced by its target.  On Windows the result is in
\* extended-length syntax (\\?\C:\...): its first component is a verbatim
\* prefix, which no path written "/..." has.
RECURSIVE realpath(_, _, _)
realpath(fs, done, rest) ==
    IF rest = <<>> THEN [ok |-> TRUE, comps |-> done]
    ELSE LET c == Head(rest)
             next == Append(done, c)
         IN IF c = ".." THEN realpath(fs, parent(done), Tail(rest))
            ELSE IF c = "." THEN realpath(fs, done, Tail(rest))
            ELSE IF next \notin fs THEN [ok |-> FALSE, comps |-> <<>>]
            ELSE IF next \in LinkNodes
                 THEN realpath(fs, <<>>, LinkTarget(next) \o Tail(rest))
            ELSE IF Tail(rest) # <<>> /\ next \notin DirNodes
                 THEN [ok |-> FALSE, comps |-> <<>>]
            ELSE realpath(fs, next, Tail(rest))

canonicalize(fs, platform, path) ==
    LET r == realpath(fs, <<>>, path)
    IN [ok |-> r.ok, verbatim |-> (platform = "windows"), comps |-> r.comps]

\* delete.rs 106-108
system_dirs ==
    << <<>>, <<"usr">>, <<"etc">>, <<"bin">>, <<"sbin">>, <<"var">>, <<"sys">>,
       <<"proc">> >>

\* mutant: the deny-list is compared for equality only
canonical_equals(canonical, sys_dir) ==
    ~canonical.verbatim /\ canonical.comps = sys_dir

\* canonical.starts_with(sys_dir): component-wise; a verbatim prefix component
\* differs from the root component every sys_dir begins with
canonical_starts_with(canonical, sys_dir) ==
    ~canonical.verbatim /\ starts_with(canonical.comps, sys_dir)

\* delete.rs 121: a ".." segment left in the canonical path
has_parent_segment(canonical) ==
    \E i \in 1..Len(canonical.comps) : canonical.comps[i] = ".."

\* mutant: a path that cannot be canonicalized is reported as a plain error
check_safety_other(fs, platform, path) ==
    LET canonical == canonicalize(fs, platform, path)
    IN IF ~canonical.ok THEN [ok |-> FALSE, err |-> <<"Other", "Path not found", path>>]
       ELSE IF \E i \in 1..Len(system_dirs) :
                   canonical_starts_with(canonical, system_dirs[i])
       THEN [ok |-> FALSE,
             err |-> <<"Other", "Cannot delete system directory", canonical.comps>>]
       ELSE IF has_parent_segment(canonical)
       THEN [ok |-> FALSE, err |-> <<"Other", "Invalid path: contains '..'", <<>> >>]
       ELSE [ok |-> TRUE, err |-> <<>>]

\* Ok(()) is [ok |-> TRUE]; an error is <<variant, message, path>>
check_safety(fs, platform, path) ==
    LET canonical == canonicalize(fs, platform, path)
    IN IF ~canonical.ok THEN [ok |-> FALSE, err |-> <<"PathNotFound", "", path>>]
       ELSE IF \E i \in 1..Len(system_dirs) :
                   canonical_starts_with(canonical, system_dirs[i])
       THEN [ok |-> FALSE,
             err |-> <<"Other", "Cannot delete system directory", canonical.comps>>]
       ELSE IF has_parent_segment(canonical)
       THEN [ok |-> FALSE, err |-> <<"Other", "Invalid path: contains '..'", <<>> >>]
       ELSE [ok |-> TRUE, err |-> <<>>]

\* CleanError's Display (error.rs 4-20): e.to_string()
to_string(err) ==
    IF err[1] = "PathNotFound" THEN <<"Path not found: ", err[3]>>
    ELSE <<"Other error: " \o err[2], err[3]>>

(***************************************************************************)
(* The filesystem operations of the executors.                             *)
(***************************************************************************)
\* fs::metadata(file).map(|m| m.len()).unwrap_or(0)
metadata_len_or_0(fs, p) == IF p \in fs THEN FileLen(p) ELSE 0

\* fs::remove_file and trash::delete of a file: [ok, fs, err]
remove_file(fs, p) ==
    IF p \notin fs THEN [ok |-> FALSE, fs |-> fs, err |-> "No such file or directory"]
    ELSE IF p \in LockedNodes \/ p \in DirNodes
    THEN [ok |-> FALSE, fs |-> fs, err |-> "Permission denied"]
    ELSE [ok |-> TRUE, fs |-> fs \ {p}, err |-> ""]

\* fs::remove_dir_all and trash::delete of a directory: the whole subtree goes.
\* No directory of the model holds an entry that cannot be removed.
remove_dir_all(fs, d) ==
    IF d \notin fs THEN [ok |-> FALSE, fs |-> fs, err |-> "No such file or directory"]
    ELSE IF d \notin DirNodes \/ \E q \in LockedNodes : q \in fs /\ starts_with(q, d)
    THEN [ok |-> FALSE, fs |-> fs, err |-> "Permission denied"]
    ELSE [ok |-> TRUE, fs |-> {q \in fs : ~starts_with(q, d)}, err |-> ""]

\* the sum of f[s[i]] over the positions of the sequence s
RECURSIVE SumSeq(_, _)
SumSeq(s, f) == IF s = <<>> THEN 0 ELSE f[Head(s)] + SumSeq(Tail(s), f)

(***************************************************************************)
(* The inputs of a deletion: the platform, the mode, and a search result   *)
(* whose entries may since have vanished (/a/gone.txt), lie in a protected *)
(* directory, be locked, repeat, or nest.                                  *)
(***************************************************************************)
Platforms == {"unix", "windows"}

\* "dry" is execute_deletion(plan, true), what the command line runs with
\* --dry-run; "dry_from_search" is execute_deletion_from_search(sr, true)
Modes == {"dry", "dry_from_search", "real", "interactive"}

FileChoices ==
    { <<"a", "file1.txt">>, Gone, <<"etc", "app.log">>, <<"a", "keep.log">> }

DirChoices ==
    { <<"a", "b">>, <<"a", "b", "c">>, <<"a", "b", "c", "d">>, <<"usr", "bin">> }

\* total_size as the search computed it, when every entry still existed
SizeAtSearch(fo, fi) ==
    SumSeq(fi, [p \in FileChoices |-> FileLen(p)])
    + SumSeq(fo, [d \in DirChoices |-> calculate_dir_size(InitialFs, d)])

SearchResults ==
    { [folders |-> fo, files |-> fi, total_size |-> SizeAtSearch(fo, fi)] :
        <<fo, fi>> \in { q \in SeqsUpTo(DirChoices, MaxItems)
                                \X SeqsUpTo(FileChoices, MaxItems) :
                             Len(q[1]) + Len(q[2]) <= MaxItems } }

\* confirm_item_deletion (interactive.rs 108-134): Ok(true), Ok(false),
\* Err("all"), Err("quit"), or the text of an I/O error
Answers == {"yes", "skip", "all", "quit", "io error"}

SearchIdle ==
    /\ paths = <<>>
    /\ config = None
    /\ path_idx = 0
    /\ start = FALSE
    /\ stack = <<>>
    /\ matched_folders = {}
    /\ folders = <<>>
    /\ files = <<>>
    /\ total_size = 0
    /\ total_dirs_scanned = 0
    /\ total_files_scanned = 0
    /\ visited = <<>>
    /\ progress = <<>>

DeleteInit ==
    /\ pc = "plan"
    /\ os \in Platforms
    /\ args = None
    /\ fsys = InitialFs
    /\ listing = ListingOf({})
    /\ sr \in SearchResults
    /\ mode \in Modes
    /\ plan = [files |-> <<>>, dirs |-> <<>>]
    /\ item = 0
    /\ deleted_files = <<>>
    /\ deleted_dirs = <<>>
    /\ failed_files = <<>>
    /\ failed_dirs = <<>>
    /\ freed = 0
    /\ confirm_all = FALSE
    /\ outcome = "running"
    /\ events = <<>>
    /\ answers = <<>>
    /\ SearchIdle
    /\ reports = <<>>
    /\ MatchIdle

(***************************************************************************)
(* The executors.  One step is one iteration of a loop over the plan:      *)
(* the files first, then the directories.                                  *)
(***************************************************************************)
\* executor.rs 108 / delete.rs 141: the plan is made from the search result
CreatePlan ==
    /\ pc = "plan"
    /\ plan' = create_delete_plan(sr)
    /\ pc' = "exec"
    /\ UNCHANGED <<os, args, listing, reports, match_vars,
                   fsys, search_vars, sr, mode, item,
                   deleted_files, deleted_dirs, failed_files, failed_dirs, freed,
                   confirm_all, outcome, events, answers>>

\* mutant: the dry run runs the safety check and reports what it rejects
DryRun_checked ==
    /\ pc = "exec"
    /\ mode = "dry"
    /\ deleted_files' = SelectSeq(plan.files, LAMBDA p : check_safety(fsys, os, p).ok)
    /\ deleted_dirs' = SelectSeq(plan.dirs, LAMBDA d : check_safety(fsys, os, d).ok)
    /\ freed' = SumSeq(plan.files, [p \in AllPaths |-> metadata_len_or_0(fsys, p)])
                + SumSeq(plan.dirs, [d \in AllPaths |-> calculate_dir_size(fsys, d)])
    /\ item' = Len(plan.files) + Len(plan.dirs)
    /\ outcome' = "ok"
    /\ pc' = "done"
    /\ UNCHANGED <<os, args, fsys, listing, reports, match_vars, search_vars, sr, plan, mode,
                   failed_files, failed_dirs, confirm_all, events, answers>>

\* mutant: the dry run leaves out the items that are no longer there
DryRun_existing ==
    /\ pc = "exec"
    /\ mode = "dry"
    /\ deleted_files' = SelectSeq(plan.files, LAMBDA p : p \in fsys)
    /\ deleted_dirs' = SelectSeq(plan.dirs, LAMBDA d : d \in fsys)
    /\ freed' = SumSeq(plan.files, [p \in AllPaths |-> metadata_len_or_0(fsys, p)])
                + SumSeq(plan.dirs, [d \in AllPaths |-> calculate_dir_size(fsys, d)])
    /\ item' = Len(plan.files) + Len(plan.dirs)
    /\ outcome' = "ok"
    /\ pc' = "done"
    /\ UNCHANGED <<os, args, listing, reports, match_vars,
                   fsys, search_vars, sr, plan, mode,
                   failed_files, failed_dirs, confirm_all, events, answers>>

\* delete.rs 188-222: the dry run collects the whole plan and sums the sizes
DryRun ==
    /\ pc = "exec"
    /\ mode = "dry"
    /\ deleted_files' = plan.files
    /\ deleted_dirs' = plan.dirs
    /\ freed' = SumSeq(plan.files, [p \in AllPaths |-> metadata_len_or_0(fsys, p)])
                + SumSeq(plan.dirs, [d \in AllPaths |-> calculate_dir_size(fsys, d)])
    /\ item' = Len(plan.files) + Len(plan.dirs)
    /\ outcome' = "ok"
    /\ pc' = "done"
    /\ UNCHANGED <<os, args, listing, reports, match_vars,
                   fsys, search_vars, sr, plan, mode,
                   failed_files, failed_dirs, confirm_all, events, answers>>

\* delete.rs 141-152: the dry run of execute_deletion_from_search answers with
\* the plan and the total the search computed
DryRunFromSearch ==
    /\ pc = "exec"
    /\ mode = "dry_from_search"
    /\ deleted_files' = plan.files
    /\ deleted_dirs' = plan.dirs
    /\ freed' = sr.total_size
    /\ item' = Len(plan.files) + Len(plan.dirs)
    /\ outcome' = "ok"
    /\ pc' = "done"
    /\ UNCHANGED <<os, args, fsys, listing, reports, match_vars, search_vars, sr, plan, mode,
                   failed_files, failed_dirs, confirm_all, events, answers>>

Check(p, ok) == <<"check", p, ok>>

Prompt(p) == <<"prompt", p, TRUE>>

Remove(p, ok) == <<"remove", p, ok>>

\* mutant: the removal is issued whatever the safety check answered
ExecItem_unchecked(p, dir) ==
    LET safe == check_safety(fsys, os, p)
        size == IF dir THEN calculate_dir_size(fsys, p) ELSE metadata_len_or_0(fsys, p)
        rm == IF dir THEN remove_dir_all(fsys, p) ELSE remove_file(fsys, p)
    IN /\ events' = events \o <<Check(p, safe.ok), Remove(p, rm.ok)>>
       /\ fsys' = rm.fs
       /\ freed' = IF rm.ok THEN freed + size ELSE freed
       /\ deleted_files' = IF rm.ok /\ ~dir THEN Append(deleted_files, p)
                           ELSE deleted_files
       /\ deleted_dirs' = IF rm.ok /\ dir THEN Append(deleted_dirs, p)
                          ELSE deleted_dirs
       /\ failed_files' = IF ~rm.ok /\ ~dir THEN Append(failed_files, <<p, <<rm.err, <<>> >> >>)
                          ELSE failed_files
       /\ failed_dirs' = IF ~rm.ok /\ dir THEN Append(failed_dirs, <<p, <<rm.err, <<>> >> >>)
                         ELSE failed_dirs
       /\ item' = item + 1

\* mutant: an item the safety check rejects is dropped instead of recorded
ExecItem_drop(p, dir) ==
    LET safe == check_safety(fsys, os, p)
        size == IF dir THEN calculate_dir_size(fsys, p) ELSE metadata_len_or_0(fsys, p)
        rm == IF dir THEN remove_dir_all(fsys, p) ELSE remove_file(fsys, p)
        removed == safe.ok /\ rm.ok
        failed == safe.ok /\ ~rm.ok
    IN /\ events' = IF safe.ok THEN events \o <<Check(p, TRUE), Remove(p, rm.ok)>>
                    ELSE Append(events, Check(p, FALSE))
       /\ fsys' = IF removed THEN rm.fs ELSE fsys
       /\ freed' = IF removed THEN freed + size ELSE freed
       /\ deleted_files' = IF removed /\ ~dir THEN Append(deleted_files, p)
                           ELSE deleted_files
       /\ deleted_dirs' = IF removed /\ dir THEN Append(deleted_dirs, p)
                          ELSE deleted_dirs
       /\ failed_files' = IF failed /\ ~dir THEN Append(failed_files, <<p, <<rm.err, <<>> >> >>)
                          ELSE failed_files
       /\ failed_dirs' = IF failed /\ dir THEN Append(failed_dirs, <<p, <<rm.err, <<>> >> >>)
                         ELSE failed_dirs
       /\ item' = item + 1

\* mutant: the size of an item is added whether or not it was removed
ExecItem_counts_failed(p, dir) ==
    LET safe == check_safety(fsys, os, p)
        size == IF dir THEN calculate_dir_size(fsys, p) ELSE metadata_len_or_0(fsys, p)
        rm == IF dir THEN remove_dir_all(fsys, p) ELSE remove_file(fsys, p)
        removed == safe.ok /\ rm.ok
        cause == IF safe.ok THEN <<rm.err, <<>> >> ELSE to_string(safe.err)
    IN /\ events' = IF safe.ok THEN events \o <<Check(p, TRUE), Remove(p, rm.ok)>>
                    ELSE Append(events, Check(p, FALSE))
       /\ fsys' = IF removed THEN rm.fs ELSE fsys
       /\ freed' = freed + size
       /\ deleted_files' = IF removed /\ ~dir THEN Append(deleted_files, p)
                           ELSE deleted_files
       /\ deleted_dirs' = IF removed /\ dir THEN Append(deleted_dirs, p)
                          ELSE deleted_dirs
       /\ failed_files' = IF ~removed /\ ~dir THEN Append(failed_files, <<p, cause>>)
                          ELSE failed_files
       /\ failed_dirs' = IF ~removed /\ dir THEN Append(failed_dirs, <<p, cause>>)
                         ELSE failed_dirs
       /\ item' = item + 1

\* one iteration over an item of a real run: the safety check, the size, the
\* removal, the bookkeeping.  dir selects the second loop.
ExecItem(p, dir) ==
    LET safe == check_safety(fsys, os, p)
        size == IF dir THEN calculate_dir_size(fsys, p) ELSE metadata_len_or_0(fsys, p)
        rm == IF dir THEN remove_dir_all(fsys, p) ELSE remove_file(fsys, p)
        removed == safe.ok /\ rm.ok
        cause == IF safe.ok THEN <<rm.err, <<>> >> ELSE to_string(safe.err)
    IN /\ events' = IF safe.ok THEN events \o <<Check(p, TRUE), Remove(p, rm.ok)>>
                    ELSE Append(events, Check(p, FALSE))
       /\ fsys' = IF removed THEN rm.fs ELSE fsys
       /\ freed' = IF removed THEN freed + size ELSE freed
       /\ deleted_files' = IF removed /\ ~dir THEN Append(deleted_files, p)
                           ELSE deleted_files
       /\ deleted_dirs' = IF removed /\ dir THEN Append(deleted_dirs, p)
                          ELSE deleted_dirs
       /\ failed_files' = IF ~removed /\ ~dir THEN Append(failed_files, <<p, cause>>)
                          ELSE failed_files
       /\ failed_dirs' = IF ~removed /\ dir THEN Append(failed_dirs, <<p, cause>>)
                         ELSE failed_dirs
       /\ item' = item + 1

\* delete.rs 224-244
ExecFile ==
    /\ pc = "exec"
    /\ mode = "real"
    /\ item < Len(plan.files)
    /\ ExecItem(plan.files[item + 1], FALSE)
    /\ UNCHANGED <<os, args, listing, reports, match_vars,
                   search_vars, sr, plan, mode,
                   confirm_all, outcome, answers, pc>>

\* mutant: the directories are taken from the end of plan.dirs
ExecDir_reversed ==
    /\ pc = "exec"
    /\ mode = "real"
    /\ item >= Len(plan.files)
    /\ item < Len(plan.files) + Len(plan.dirs)
    /\ ExecItem(plan.dirs[Len(plan.dirs) - (item - Len(plan.files))], TRUE)
    /\ UNCHANGED <<os, args, listing, reports, match_vars,
                   search_vars, sr, plan, mode,
                   confirm_all, outcome, answers, pc>>

\* delete.rs 246-267
ExecDir ==
    /\ pc = "exec"
    /\ mode = "real"
    /\ item >= Len(plan.files)
    /\ item < Len(plan.files) + Len(plan.dirs)
    /\ ExecItem(plan.dirs[item + 1 - Len(plan.files)], TRUE)
    /\ UNCHANGED <<os, args, listing, reports, match_vars,
                   search_vars, sr, plan, mode,
                   confirm_all, outcome, answers, pc>>

\* mutant: confirm_all is not consulted, every safe item is asked about
InteractiveItem_asks_again(p, dir, answer) ==
    LET safe == check_safety(fsys, os, p)
        size == IF dir THEN calculate_dir_size(fsys, p) ELSE metadata_len_or_0(fsys, p)
        asked == safe.ok
        go == safe.ok /\ answer \in {"yes", "all"}
        rm == IF dir THEN remove_dir_all(fsys, p) ELSE remove_file(fsys, p)
        removed == go /\ rm.ok
        failed == ~safe.ok \/ (go /\ ~rm.ok)
        cause == IF safe.ok THEN <<rm.err, <<>> >> ELSE to_string(safe.err)
        stop == asked /\ answer \in {"quit", "io error"}
    IN /\ events' = events \o <<Check(p, safe.ok)>>
                      \o (IF asked THEN <<Prompt(p)>> ELSE <<>>)
                      \o (IF go THEN <<Remove(p, rm.ok)>> ELSE <<>>)
       /\ confirm_all' = (confirm_all \/ (asked /\ answer = "all"))
       /\ fsys' = IF removed THEN rm.fs ELSE fsys
       /\ freed' = IF removed THEN freed + size ELSE freed
       /\ deleted_files' = IF removed /\ ~dir THEN Append(deleted_files, p)
                           ELSE deleted_files
       /\ deleted_dirs' = IF removed /\ dir THEN Append(deleted_dirs, p)
                          ELSE deleted_dirs
       /\ failed_files' = IF failed /\ ~dir THEN Append(failed_files, <<p, cause>>)
                          ELSE failed_files
       /\ failed_dirs' = IF failed /\ dir THEN Append(failed_dirs, <<p, cause>>)
                         ELSE failed_dirs
       /\ item' = IF stop THEN item ELSE item + 1
       /\ outcome' = IF stop THEN <<"Other", answer>> ELSE outcome
       /\ answers' = IF asked THEN Append(answers, <<p, answer>>) ELSE answers
       /\ pc' = IF stop THEN "done" ELSE pc

\* mutant: the answer "quit" skips the item and the run goes on
InteractiveItem_quit_skips(p, dir, answer) ==
    LET safe == check_safety(fsys, os, p)
        size == IF dir THEN calculate_dir_size(fsys, p) ELSE metadata_len_or_0(fsys, p)
        asked == safe.ok /\ ~confirm_all
        go == safe.ok /\ (confirm_all \/ answer \in {"yes", "all"})
        rm == IF dir THEN remove_dir_all(fsys, p) ELSE remove_file(fsys, p)
        removed == go /\ rm.ok
        failed == ~safe.ok \/ (go /\ ~rm.ok)
        cause == IF safe.ok THEN <<rm.err, <<>> >> ELSE to_string(safe.err)
        stop == asked /\ answer = "io error"
    IN /\ events' = events \o <<Check(p, safe.ok)>>
                      \o (IF asked THEN <<Prompt(p)>> ELSE <<>>)
                      \o (IF go THEN <<Remove(p, rm.ok)>> ELSE <<>>)
       /\ confirm_all' = (confirm_all \/ (asked /\ answer = "all"))
       /\ fsys' = IF removed THEN rm.fs ELSE fsys
       /\ freed' = IF removed THEN freed + size ELSE freed
       /\ deleted_files' = IF removed /\ ~dir THEN Append(deleted_files, p)
                           ELSE deleted_files
       /\ deleted_dirs' = IF removed /\ dir THEN Append(deleted_dirs, p)
                          ELSE deleted_dirs
       /\ failed_files' = IF failed /\ ~dir THEN Append(failed_files, <<p, cause>>)
                          ELSE failed_files
       /\ failed_dirs' = IF failed /\ dir THEN Append(failed_dirs, <<p, cause>>)
                         ELSE failed_dirs
       /\ item' = IF stop THEN item ELSE item + 1
       /\ outcome' = IF stop THEN <<"Other", answer>> ELSE outcome
       /\ answers' = IF asked THEN Append(answers, <<p, answer>>) ELSE answers
       /\ pc' = IF stop THEN "done" ELSE pc

\* executor.rs 199-210 and 274-285: the error the interactive executor returns
\* when the decision function answers Err("quit"), or Err(e) for another e
interactive_error(answer) ==
    IF answer = "quit" THEN <<"Other", "User cancelled">> ELSE <<"Other", answer>>

\* mutant: an item the user skips is recorded as failed
InteractiveItem_skip_fails(p, dir, answer) ==
    LET safe == check_safety(fsys, os, p)
        size == IF dir THEN calculate_dir_size(fsys, p) ELSE metadata_len_or_0(fsys, p)
        asked == safe.ok /\ ~confirm_all
        go == safe.ok /\ (confirm_all \/ answer \in {"yes", "all"})
        rm == IF dir THEN remove_dir_all(fsys, p) ELSE remove_file(fsys, p)
        removed == go /\ rm.ok
        failed == ~safe.ok \/ (go /\ ~rm.ok) \/ (asked /\ answer = "skip")
        cause == IF safe.ok THEN <<rm.err, <<>> >> ELSE to_string(safe.err)
        stop == asked /\ answer \in {"quit", "io error"}
    IN /\ events' = events \o <<Check(p, safe.ok)>>
                      \o (IF asked THEN <<Prompt(p)>> ELSE <<>>)
                      \o (IF go THEN <<Remove(p, rm.ok)>> ELSE <<>>)
       /\ confirm_all' = (confirm_all \/ (asked /\ answer = "all"))
       /\ fsys' = IF removed THEN rm.fs ELSE fsys
       /\ freed' = IF removed THEN freed + size ELSE freed
       /\ deleted_files' = IF removed /\ ~dir THEN Append(deleted_files, p)
                           ELSE deleted_files
       /\ deleted_dirs' = IF removed /\ dir THEN Append(deleted_dirs, p)
                          ELSE deleted_dirs
       /\ failed_files' = IF failed /\ ~dir THEN Append(failed_files, <<p, cause>>)
                          ELSE failed_files
       /\ failed_dirs' = IF failed /\ dir THEN Append(failed_dirs, <<p, cause>>)
                         ELSE failed_dirs
       /\ item' = IF stop THEN item ELSE item + 1
       /\ outcome' = IF stop THEN interactive_error(answer) ELSE outcome
       /\ answers' = IF asked THEN Append(answers, <<p, answer>>) ELSE answers
       /\ pc' = IF stop THEN "done" ELSE pc

\* one iteration of the interactive executor: the safety check, the size, the
\* prompt unless confirm_all, the removal by trash::delete, the bookkeeping
InteractiveItem(p, dir, answer) ==
    LET safe == check_safety(fsys, os, p)
        size == IF dir THEN calculate_dir_size(fsys, p) ELSE metadata_len_or_0(fsys, p)
        asked == safe.ok /\ ~confirm_all
        go == safe.ok /\ (confirm_all \/ answer \in {"yes", "all"})
        rm == IF dir THEN remove_dir_all(fsys, p) ELSE remove_file(fsys, p)
        removed == go /\ rm.ok
        failed == ~safe.ok \/ (go /\ ~rm.ok)
        cause == IF safe.ok THEN <<rm.err, <<>> >> ELSE to_string(safe.err)
        stop == asked /\ answer \in {"quit", "io error"}
    IN /\ events' = events \o <<Check(p, safe.ok)>>
                      \o (IF asked THEN <<Prompt(p)>> ELSE <<>>)
                      \o (IF go THEN <<Remove(p, rm.ok)>> ELSE <<>>)
       /\ confirm_all' = (confirm_all \/ (asked /\ answer = "all"))
       /\ fsys' = IF removed THEN rm.fs ELSE fsys
       /\ freed' = IF removed THEN freed + size ELSE freed
       /\ deleted_files' = IF removed /\ ~dir THEN Append(deleted_files, p)
                           ELSE deleted_files
       /\ deleted_dirs' = IF removed /\ dir THEN Append(deleted_dirs, p)
                          ELSE deleted_dirs
       /\ failed_files' = IF failed /\ ~dir THEN Append(failed_files, <<p, cause>>)
                          ELSE failed_files
       /\ failed_dirs' = IF failed /\ dir THEN Append(failed_dirs, <<p, cause>>)
                         ELSE failed_dirs
       /\ item' = IF stop THEN item ELSE item + 1
       /\ outcome' = IF stop THEN interactive_error(answer) ELSE outcome
       /\ answers' = IF asked THEN Append(answers, <<p, answer>>) ELSE answers
       /\ pc' = IF stop THEN "done" ELSE pc

\* executor.rs 177-237
InteractiveFile ==
    /\ pc = "exec"
    /\ mode = "interactive"
    /\ item < Len(plan.files)
    /\ \E answer \in Answers : InteractiveItem(plan.files[item + 1], FALSE, answer)
    /\ UNCHANGED <<os, args, listing, reports, match_vars,
                   search_vars, sr, plan, mode>>

\* executor.rs 240-312
InteractiveDir ==
    /\ pc = "exec"
    /\ mode = "interactive"
    /\ item >= Len(plan.files)
    /\ item < Len(plan.files) + Len(plan.dirs)
    /\ \E answer \in Answers :
           InteractiveItem(plan.dirs[item + 1 - Len(plan.files)], TRUE, answer)
    /\ UNCHANGED <<os, args, listing, reports, match_vars,
                   search_vars, sr, plan, mode>>

\* mutant: a run in which an item failed ends in an error
ExecReturn_fails ==
    /\ pc = "exec"
    /\ mode \in {"real", "interactive"}
    /\ item = Len(plan.files) + Len(plan.dirs)
    /\ outcome' = IF failed_files = <<>> /\ failed_dirs = <<>> THEN "ok"
                  ELSE <<"Other", "Some items failed to delete">>
    /\ pc' = "done"
    /\ UNCHANGED <<os, args, listing, reports, match_vars,
                   fsys, search_vars, sr, plan, mode, item,
                   deleted_files, deleted_dirs, failed_files, failed_dirs, freed,
                   confirm_all, events, answers>>

\* delete.rs 269-275, executor.rs 314-320: both loops are over
ExecReturn ==
    /\ pc = "exec"
    /\ mode \in {"real", "interactive"}
    /\ item = Len(plan.files) + Len(plan.dirs)
    /\ outcome' = "ok"
    /\ pc' = "done"
    /\ UNCHANGED <<os, args, listing, reports, match_vars,
                   fsys, search_vars, sr, plan, mode, item,
                   deleted_files, deleted_dirs, failed_files, failed_dirs, freed,
                   confirm_all, events, answers>>

\* what a finished run found and reported
Report ==
    [folders |-> folders, files |-> files, total_size |-> total_size,
     deleted_files |-> deleted_files, deleted_dirs |-> deleted_dirs,
     freed |-> freed, fsys |-> fsys]

\* delete.rs 160-166: after the dry run the caller runs the same plan for
\* real, execute_deletion(plan, false); the DeleteResult starts empty (182-186)
RealAfterDry ==
    /\ pc = "done"
    /\ mode \in {"dry", "dry_from_search"}
    /\ reports = <<>>
    /\ reports' = <<Report>>
    /\ mode' = "real"
    /\ item' = 0
    /\ deleted_files' = <<>>
    /\ deleted_dirs' = <<>>
    /\ failed_files' = <<>>
    /\ failed_dirs' = <<>>
    /\ freed' = 0
    /\ outcome' = "running"
    /\ pc' = "exec"
    /\ UNCHANGED <<os, args, fsys, listing, match_vars, search_vars, sr, plan,
                   confirm_all, events, answers>>

DeleteNext ==
    \/ CreatePlan
    \/ DryRun
    \/ DryRunFromSearch
    \/ ExecFile
    \/ ExecDir
    \/ InteractiveFile
    \/ InteractiveDir
    \/ ExecReturn
    \/ RealAfterDry

SpecDelete == DeleteInit /\ [][DeleteNext]_vars

(***************************************************************************)
(* CommandExecutor::execute with --dry-run (executor.rs 24-106): the       *)
(* search, the plan, the dry run; and the same command run a second time.  *)
(***************************************************************************)
PipelineInit ==
    /\ pc = "search"
    /\ os = "unix"
    /\ args = None
    /\ fsys = InitialFs
    /\ paths \in RootLists
    /\ listing \in Listings(paths)
    /\ config \in {c \in ConfigChoices : c.exclude \in {<<>>, <<Dist>>}}
    /\ path_idx = 1
    /\ start = TRUE
    /\ stack = <<>>
    /\ matched_folders = {}
    /\ folders = <<>>
    /\ files = <<>>
    /\ total_size = 0
    /\ total_dirs_scanned = 0
    /\ total_files_scanned = 0
    /\ visited = <<>>
    /\ progress = <<>>
    /\ sr = [folders |-> <<>>, files |-> <<>>, total_size |-> 0]
    /\ plan = [files |-> <<>>, dirs |-> <<>>]
    /\ mode = "dry"
    /\ item = 0
    /\ deleted_files = <<>>
    /\ deleted_dirs = <<>>
    /\ failed_files = <<>>
    /\ failed_dirs = <<>>
    /\ freed = 0
    /\ confirm_all = FALSE
    /\ outcome = "running"
    /\ events = <<>>
    /\ answers = <<>>
    /\ reports = <<>>
    /\ MatchIdle

\* executor.rs 86-97: the search result is what the plan is made from
HandOver ==
    /\ pc = "searched"
    /\ sr' = [folders |-> folders, files |-> files, total_size |-> total_size]
    /\ pc' = "plan"
    /\ UNCHANGED <<os, args, fsys, listing, reports, match_vars, search_vars, plan, mode, item,
                   deleted_files, deleted_dirs, failed_files, failed_dirs, freed,
                   confirm_all, outcome, events, answers>>

\* mutant: the second run starts with the matched-folder set of the first
RunAgain_keeps_matched ==
    /\ pc = "done"
    /\ reports = <<>>
    /\ reports' = <<Report>>
    /\ path_idx' = 1
    /\ start' = TRUE
    /\ stack' = <<>>
    /\ folders' = <<>>
    /\ files' = <<>>
    /\ total_size' = 0
    /\ total_dirs_scanned' = 0
    /\ total_files_scanned' = 0
    /\ visited' = <<>>
    /\ progress' = <<>>
    /\ sr' = [folders |-> <<>>, files |-> <<>>, total_size |-> 0]
    /\ plan' = [files |-> <<>>, dirs |-> <<>>]
    /\ item' = 0
    /\ deleted_files' = <<>>
    /\ deleted_dirs' = <<>>
    /\ freed' = 0
    /\ outcome' = "running"
    /\ pc' = "search"
    /\ UNCHANGED <<os, args, fsys, listing, match_vars, paths, config, matched_folders, mode,
                   failed_files, failed_dirs, confirm_all, events, answers>>

\* the command is run again on the same arguments: every local of
\* search_with_progress (search.rs 109-118) and of the executor starts afresh,
\* the filesystem is what the first run left
RunAgain ==
    /\ pc = "done"
    /\ reports = <<>>
    /\ reports' = <<Report>>
    /\ path_idx' = 1
    /\ start' = TRUE
    /\ stack' = <<>>
    /\ matched_folders' = {}
    /\ folders' = <<>>
    /\ files' = <<>>
    /\ total_size' = 0
    /\ total_dirs_scanned' = 0
    /\ total_files_scanned' = 0
    /\ visited' = <<>>
    /\ progress' = <<>>
    /\ sr' = [folders |-> <<>>, files |-> <<>>, total_size |-> 0]
    /\ plan' = [files |-> <<>>, dirs |-> <<>>]
    /\ item' = 0
    /\ deleted_files' = <<>>
    /\ deleted_dirs' = <<>>
    /\ freed' = 0
    /\ outcome' = "running"
    /\ pc' = "search"
    /\ UNCHANGED <<os, args, fsys, listing, match_vars, paths, config, mode, failed_files,
                   failed_dirs, confirm_all, events, answers>>

PipelineNext ==
    \/ SearchNext
    \/ HandOver
    \/ CreatePlan
    \/ DryRun
    \/ RunAgain

SpecPipeline == PipelineInit /\ [][PipelineNext]_vars

(***************************************************************************)
(* ConfigLoader (core/src/config.rs): the configuration the command line   *)
(* searches with.                                                          *)
(***************************************************************************)
\* config.rs 105-116; Path::exists follows symbolic links
validate_path(fs, path) ==
    IF metadata(fs, path) = "err"
    THEN [ok |-> FALSE, err |-> <<"PathNotFound", "path">>]
    ELSE IF metadata(fs, path) \notin {"dir", "file"}
    THEN [ok |-> FALSE, err |-> <<"Other", "Path is not a file or directory">>]
    ELSE [ok |-> TRUE, err |-> <<>>]

\* config.rs 169-177: the project type a file name stands for
marker_type(name) ==
    CASE name = "package.json" -> "NodeJs"
      [] name = "Cargo.toml" -> "Rust"
      [] name = "go.mod" -> "Go"
      [] name \in {"pom.xml", "build.gradle"} -> "Java"
      [] name \in {"requirements.txt", "setup.py", "pyproject.toml"} -> "Python"
      [] OTHER -> "Unknown"

\* config.rs 159-181: the type of the first marker file the directory lists
detect_project_type(fs, order, path) ==
    LET entries == IF metadata(fs, path) = "dir" /\ path \notin Unreadable
                   THEN read_dir(fs, path) ELSE {}
        markers == {e \in entries : marker_type(file_name(e)) # "Unknown"}
    IN IF markers = {} THEN "Unknown"
       ELSE marker_type(file_name(
                CHOOSE e \in markers :
                    \A q \in markers : position(order, e) <= position(order, q)))

DefaultOptions ==
    [recursive |-> TRUE, follow_symlinks |-> FALSE, min_size |-> <<>>,
     max_size |-> <<>>, min_age_days |-> <<>>, max_age_days |-> <<>>]

\* config.rs 190-226
load_default_config(project_type) ==
    LET clean ==
            CASE project_type = "NodeJs" ->
                     << <<"node_modules", "dist", "build", ".next">>, <<>> >>
              [] project_type = "Rust" -> << <<"target">>, <<>> >>
              [] project_type = "Python" -> << <<"__pycache__">>, <<"*.pyc">> >>
              [] project_type = "Go" -> << <<"vendor", "bin">>, <<>> >>
              [] project_type = "Java" -> << <<"target", "build">>, <<>> >>
              [] OTHER -> << <<"node_modules", "dist", "build", "target">>, <<>> >>
    IN [folders |-> clean[1], files |-> clean[2], exclude |-> <<>>,
        options |-> DefaultOptions]

\* the configuration file /etc/bc.json holds
ConfigFile == <<"etc", "bc.json">>

ConfigFileContent ==
    [folders |-> <<"sub">>, files |-> <<"app.???">>, exclude |-> <<Dist>>,
     options |-> DefaultOptions]

\* config.rs 237-251: fs::read_to_string, then serde
parse_config_file(fs, path) ==
    IF metadata(fs, path) # "file"
    THEN [ok |-> FALSE, config |-> None,
          err |-> <<"ConfigParseError", "Failed to read config file">>]
    ELSE IF path = ConfigFile
    THEN [ok |-> TRUE, config |-> ConfigFileContent, err |-> <<>>]
    ELSE [ok |-> FALSE, config |-> None,
          err |-> <<"ConfigParseError", "Failed to parse JSON">>]

\* the patterns a command line may name
CliPatterns == {"sub/", "sub", "*.txt"}

\* str::ends_with('/')
ends_with_slash(s) == Chars(s) # <<>> /\ Chars(s)[Len(Chars(s))] = "/"

\* str::trim_end_matches('/').to_string()
trim_end_matches(s) ==
    CHOOSE t \in CliPatterns : Chars(t) = trim_end_matches_slash(Chars(s))

\* Vec::push unless Vec::contains
push_new(list, x) == IF x \in Range(list) THEN list ELSE Append(list, x)

\* config.rs 276-287: a pattern that ends in '/' names a folder
RECURSIVE merge_cli(_, _)
merge_cli(merged, cli_patterns) ==
    IF cli_patterns = <<>> THEN merged
    ELSE LET pattern == Head(cli_patterns)
         IN merge_cli(
                IF ends_with_slash(pattern)
                THEN [merged EXCEPT !.folders = push_new(@, trim_end_matches(pattern))]
                ELSE [merged EXCEPT !.files = push_new(@, pattern)],
                Tail(cli_patterns))

\* config.rs 262-290; file_config is an Option
merge_configs(default, file_config, cli_patterns) ==
    LET merged ==
            IF file_config = <<>> THEN default
            ELSE [folders |-> default.folders \o file_config[1].folders,
                  files |-> default.files \o file_config[1].files,
                  exclude |-> default.exclude \o file_config[1].exclude,
                  options |-> file_config[1].options]
    IN merge_cli(merged, cli_patterns)

\* config.rs 299-306
validate_config(cfg) ==
    IF cfg.folders = <<>> /\ cfg.files = <<>>
    THEN [ok |-> FALSE,
          err |-> <<"ConfigParseError",
                    "At least one folder or file pattern must be specified">>]
    ELSE [ok |-> TRUE, err |-> <<>>]

\* config.rs 127-151; config_file is an Option
load_config(fs, order, path, config_file, cli_patterns) ==
    LET default_config == load_default_config(detect_project_type(fs, order, path))
        parsed == parse_config_file(fs, config_file[1])
        file_config == IF config_file = <<>> THEN <<>> ELSE <<parsed.config>>
        merged_config == merge_configs(default_config, file_config, cli_patterns)
    IN IF ~validate_path(fs, path).ok
       THEN [ok |-> FALSE, config |-> None, err |-> validate_path(fs, path).err]
       ELSE IF config_file # <<>> /\ ~validate_path(fs, config_file[1]).ok
       THEN [ok |-> FALSE, config |-> None,
             err |-> validate_path(fs, config_file[1]).err]
       ELSE IF config_file # <<>> /\ ~parsed.ok
       THEN [ok |-> FALSE, config |-> None, err |-> parsed.err]
       ELSE IF ~validate_config(merged_config).ok
       THEN [ok |-> FALSE, config |-> None, err |-> validate_config(merged_config).err]
       ELSE [ok |-> TRUE, config |-> merged_config, err |-> <<>>]

(***************************************************************************)
(* CommandExecutor::execute (executor.rs 24-158): the arguments are        *)
(* validated, the configuration is loaded, the roots are searched, the     *)
(* plan is made and carried out in the mode the flags select.              *)
(***************************************************************************)
\* a root that does not exist
NoRoot == <<"tmp", "z">>

ExecuteRootChoices == { <<"tmp", "x">>, <<"tmp", "y">>, NoRoot, <<"etc", "sock">> }

\* clap requires at least one path
ExecuteRootLists == SeqsUpTo(ExecuteRootChoices, MaxRoots) \ {<<>>}

\* --config: none, a well-formed file, a malformed one, a missing one, a directory
ConfigFileChoices ==
    { <<>>, <<ConfigFile>>, << <<"etc", "bad.json">> >>, << <<"etc", "no.json">> >>,
      << <<"etc">> >> }

CliPatternChoices == { <<>>, <<"sub/", "*.txt">> }

ExecuteModes == {"dry", "real", "interactive"}

ExecuteInit ==
    /\ pc = "args"
    /\ os \in Platforms
    /\ args \in [config_file : ConfigFileChoices, clean_patterns : CliPatternChoices]
    /\ fsys = InitialFs
    /\ paths \in ExecuteRootLists
    /\ listing = ListingOf({})
    /\ config = None
    /\ path_idx = 1
    /\ start = TRUE
    /\ stack = <<>>
    /\ matched_folders = {}
    /\ folders = <<>>
    /\ files = <<>>
    /\ total_size = 0
    /\ total_dirs_scanned = 0
    /\ total_files_scanned = 0
    /\ visited = <<>>
    /\ progress = <<>>
    /\ sr = [folders |-> <<>>, files |-> <<>>, total_size |-> 0]
    /\ plan = [files |-> <<>>, dirs |-> <<>>]
    /\ mode \in ExecuteModes
    /\ item = 0
    /\ deleted_files = <<>>
    /\ deleted_dirs = <<>>
    /\ failed_files = <<>>
    /\ failed_dirs = <<>>
    /\ freed = 0
    /\ confirm_all = FALSE
    /\ outcome = "running"
    /\ events = <<>>
    /\ answers = <<>>
    /\ reports = <<>>
    /\ MatchIdle

\* the roots validate_path rejects, in the order of the command line
InvalidRoots == SelectSeq(paths, LAMBDA p : ~validate_path(fsys, p).ok)

\* executor.rs 27-43: every root is validated, then the configuration is
\* loaded for the first root; the first error is returned
LoadConfig ==
    /\ pc = "args"
    /\ LET loaded == load_config(fsys, listing, paths[1], args.config_file,
                                 args.clean_patterns)
       IN IF InvalidRoots # <<>>
          THEN /\ outcome' = validate_path(fsys, InvalidRoots[1]).err
               /\ pc' = "done"
               /\ UNCHANGED config
          ELSE IF ~loaded.ok
          THEN /\ outcome' = loaded.err
               /\ pc' = "done"
               /\ UNCHANGED config
          ELSE /\ config' = loaded.config
               /\ pc' = "search"
               /\ UNCHANGED outcome
    /\ UNCHANGED <<os, args, fsys, listing, reports, match_vars, paths, path_idx, start,
                   stack, matched_folders, folders, files, total_size,
                   total_dirs_scanned, total_files_scanned, visited, progress, sr,
                   plan, mode, item, deleted_files, deleted_dirs, failed_files,
                   failed_dirs, freed, confirm_all, events, answers>>

ExecuteNext ==
    \/ LoadConfig
    \/ SearchNext
    \/ HandOver
    \/ CreatePlan
    \/ DryRun
    \/ ExecFile
    \/ ExecDir
    \/ InteractiveFile
    \/ InteractiveDir
    \/ ExecReturn

SpecExecute == ExecuteInit /\ [][ExecuteNext]_vars

(***************************************************************************)
(* SearchEngine::match_pattern called on its own, on every pattern and     *)
(* every name up to a length.                                              *)
(***************************************************************************)
\* the longest pattern and the longest name
MaxPattern == 3

MaxName == 3

PatternAlphabet == {"a", ".", "*", "?", "/"}

NameAlphabet == {"a", "b", "."}

MatchInit ==
    /\ pc = "match"
    /\ os = "unix"
    /\ args = None
    /\ fsys = InitialFs
    /\ listing = ListingOf({})
    /\ m_pattern \in SeqsUpTo(PatternAlphabet, MaxPattern)
    /\ m_name \in SeqsUpTo(NameAlphabet, MaxName)
    /\ m_result = None
    /\ SearchIdle
    /\ DeleteIdle
    /\ reports = <<>>

\* search.rs 297-304
MatchPattern ==
    /\ pc = "match"
    /\ m_result' = match_chars(m_pattern, m_name)
    /\ pc' = "matched"
    /\ UNCHANGED <<os, args, fsys, listing, search_vars, delete_vars, reports, m_pattern,
                   m_name>>

SpecMatch == MatchInit /\ [][MatchPattern]_vars

(***************************************************************************)
(* Claims about the walker, checked under SpecSearch.                      *)
(***************************************************************************)
StrictlyUnder(p, d) == p # d /\ starts_with(p, d)

Under(p, d) == p = d \/ StrictlyUnder(p, d)

X == <<"tmp", "x">>

\* the paths appended to the sequence s by the step
Pushed(s, t) == {t[i] : i \in (Len(s) + 1)..Len(t)}

\* the scanned counters count exactly the entries of the history
CountersFollowHistory ==
    /\ total_dirs_scanned = Cardinality({i \in 1..Len(visited) : visited[i] \in DirNodes})
    /\ total_files_scanned = Cardinality({i \in 1..Len(visited) : visited[i] \in FileNodes})

\* C1: in one search, once a directory is in the matched-folder set, no path
\* strictly beneath it is afterwards pushed to folders or files or counted in a
\* scanned counter; for the tree /tmp/x/node_modules/sub/file.txt with folder
\* pattern node_modules the result is folders = [/tmp/x/node_modules],
\* files = [], and neither sub nor file.txt is counted.
C1_PrunedAfterMatch ==
    [][/\ \A m \in matched_folders :
              \A p \in Pushed(folders, folders') \cup Pushed(files, files')
                        \cup Pushed(visited, visited') : ~StrictlyUnder(p, m)
       /\ CountersFollowHistory'
       /\ (/\ pc' = "searched"
           /\ paths = <<X>>
           /\ config.folders = <<"node_modules">>
           /\ config.exclude = <<>>)
          => /\ folders' = << X \o <<"node_modules">> >>
             /\ files' = <<>>
             /\ \A p \in Range(visited') : ~StrictlyUnder(p, X \o <<"node_modules">>)
             /\ total_dirs_scanned' = 2
             /\ total_files_scanned' = 0]_vars

\* C1 witness: the search of /tmp/x returned with node_modules matched while a
\* file pattern that fits file.txt was configured, and found no file
C1_Witness ==
    /\ pc = "searched"
    /\ paths = <<X>>
    /\ config.folders = <<"node_modules">>
    /\ config.files # <<>>
    /\ config.options.recursive
    /\ config.options.min_size = <<>>
    /\ folders = << X \o <<"node_modules">> >>
    /\ files = <<>>
    /\ Len(visited) = 2

\* C2 (as claimed): for every list of roots the returned folders are pairwise
\* non-nested and no returned file lies beneath a returned folder.
C2_NonNestedResult ==
    pc = "searched" =>
        /\ \A i, j \in 1..Len(folders) : ~StrictlyUnder(folders[i], folders[j])
        /\ \A i \in 1..Len(files) : \A j \in 1..Len(folders) :
               ~StrictlyUnder(files[i], folders[j])

\* C3: an entry equal to or nested under a member of config.exclude is never
\* pushed to folders or files, never counted, never in the matched-folder set.
Excluded(p) == \E i \in 1..Len(config.exclude) : Under(p, config.exclude[i])

C3_ExcludedInvisible ==
    /\ \A p \in Range(folders) \cup Range(files) \cup Range(visited)
                \cup matched_folders : ~Excluded(p)
    /\ CountersFollowHistory

\* C3 witness: /tmp/y/dist is excluded while dist/ and node_modules are folder
\* patterns and *.txt a file pattern; the walk of /tmp/y read dist and passed on
C3_Witness ==
    /\ pc = "searched"
    /\ paths = << <<"tmp", "y">> >>
    /\ config.exclude = << <<"tmp", "y", "dist">> >>
    /\ Len(config.folders) = 3
    /\ config.files # <<>>
    /\ config.options.recursive
    /\ folders = <<>>
    /\ total_dirs_scanned = 1
    /\ total_files_scanned = 1

(***************************************************************************)
(* Claims about the planner, the validator and the executors, checked      *)
(* under SpecDelete.                                                       *)
(***************************************************************************)
Count(s, x) == Cardinality({i \in 1..Len(s) : s[i] = x})

\* the paths of a failed list
FailedPaths(failed) == [i \in 1..Len(failed) |-> failed[i][1]]

PlanItems == plan.files \o plan.dirs

AB == <<"a", "b">>

ABC == <<"a", "b", "c">>

ABCD == <<"a", "b", "c", "d">>

File1 == <<"a", "file1.txt">>

\* C4: create_delete_plan returns files identical to SearchResult.files and
\* dirs that is a permutation of SearchResult.folders in non-increasing order
\* of component count; folders /a/b/c/d, /a/b, /a/b/c give exactly
\* /a/b/c/d, /a/b/c, /a/b; the SearchResult is left unchanged.
C4_PlanDeepestFirst ==
    [][(pc = "plan" /\ pc' = "exec") =>
          /\ plan'.files = sr.files
          /\ \A d \in DirChoices : Count(plan'.dirs, d) = Count(sr.folders, d)
          /\ Len(plan'.dirs) = Len(sr.folders)
          /\ \A i, j \in 1..Len(plan'.dirs) :
                 i < j => components_count(plan'.dirs[i]) >= components_count(plan'.dirs[j])
          /\ (sr.folders = <<ABCD, AB, ABC>> => plan'.dirs = <<ABCD, ABC, AB>>)
          /\ sr' = sr]_vars

\* C4 witness: the plan of the folders /a/b/c/d, /a/b, /a/b/c has been made
C4_Witness ==
    /\ pc = "exec"
    /\ sr.folders = <<ABCD, AB, ABC>>
    /\ plan.dirs = <<ABCD, ABC, AB>>

\* the paths the validator is asked about: every entry of the filesystem (a
\* symbolic link into /usr among them), a vanished file, and a path that
\* reaches /usr/bin through ".."
CheckPaths == InitialFs \cup {Gone, <<"a", "b", "..", "..", "usr", "bin">>}

\* the protected roots below "/" ("/" itself is the empty path)
ProtectedRoots ==
    { <<"usr">>, <<"etc">>, <<"bin">>, <<"sbin">>, <<"var">>, <<"sys">>, <<"proc">> }

\* the root directory itself, or a protected root, or something under one
IsProtected(c) == c = <<>> \/ \E r \in ProtectedRoots : Under(c, r)

\* C5: check_safety returns an error for every path whose canonical form is
\* equal to or nested under a protected root, for files and directories
\* alike; the validator has no configuration input.
C5_ProtectedAlwaysRejected ==
    \A p \in CheckPaths :
        LET c == canonicalize(fsys, os, p)
        IN (c.ok /\ ~c.verbatim /\ IsProtected(c.comps))
               => ~check_safety(fsys, os, p).ok

\* C5 witness: a real run was handed the file /etc/app.log and the directory
\* /usr/bin; both were checked, rejected, recorded as failed and left in place
C5_Witness ==
    /\ pc = "done"
    /\ mode = "real"
    /\ os = "unix"
    /\ \E i \in 1..Len(events) : events[i] = Check(<<"etc", "app.log">>, FALSE)
    /\ \E i \in 1..Len(events) : events[i] = Check(<<"usr", "bin">>, FALSE)
    /\ {<<"etc", "app.log">>, <<"usr", "bin">>} \subseteq fsys
    /\ Len(failed_files) = 1
    /\ Len(failed_dirs) = 1

\* C6 (as claimed): check_safety returns Ok for an existing path whose
\* canonical form is not a protected system directory and not beneath one.
C6_SafePathAccepted ==
    \A p \in CheckPaths :
        LET c == realpath(fsys, <<>>, p)
        IN (c.ok /\ ~IsProtected(c.comps)) => check_safety(fsys, os, p).ok

\* the item the executor is about to process
Current == PlanItems[item + 1]

Stepping ==
    /\ pc = "exec"
    /\ mode \in {"real", "interactive"}
    /\ item < Len(PlanItems)

\* C7: when a plan item cannot be canonicalized, check_safety returns
\* PathNotFound carrying that path, the executor appends exactly that item to
\* the failed list of its kind, issues no removal (and no prompt) for it, and
\* goes on to the next item.
C7_VanishedItemFails ==
    [][(Stepping /\ ~canonicalize(fsys, os, Current).ok) =>
          LET p == Current
              entry == <<p, <<"Path not found: ", p>> >>
              isFile == item < Len(plan.files)
          IN /\ check_safety(fsys, os, p).err = <<"PathNotFound", "", p>>
             /\ failed_files' = IF isFile THEN Append(failed_files, entry)
                                ELSE failed_files
             /\ failed_dirs' = IF isFile THEN failed_dirs
                               ELSE Append(failed_dirs, entry)
             /\ events' = Append(events, Check(p, FALSE))
             /\ UNCHANGED <<fsys, deleted_files, deleted_dirs, freed>>
             /\ item' = item + 1
             /\ pc' = "exec"]_vars

\* C7 witness: a real run met the vanished /a/gone.txt first, recorded it as
\* not found, and then removed /a/file1.txt
C7_Witness ==
    /\ pc = "done"
    /\ mode = "real"
    /\ plan.files = <<Gone, File1>>
    /\ failed_files = << <<Gone, <<"Path not found: ", Gone>> >> >>
    /\ deleted_files = <<File1>>
    /\ File1 \notin fsys

\* the run was ended by an answer to a prompt (quit, or a failed prompt)
Stopped == pc = "done" /\ outcome # "ok"

\* the paths of the check events, in order
RECURSIVE CheckedPaths(_)
CheckedPaths(ev) ==
    IF ev = <<>> THEN <<>>
    ELSE IF Head(ev)[1] = "check" THEN <<Head(ev)[2]>> \o CheckedPaths(Tail(ev))
    ELSE CheckedPaths(Tail(ev))

\* C8: in a real run, plain or interactive, a removal is issued for an item
\* only after check_safety returned Ok for that item, with nothing but the
\* item's own prompt in between; each item is checked once, in plan order; an
\* item whose check failed is neither removed nor presented for confirmation.
C8_RemovalOnlyAfterCheck ==
    mode \in {"real", "interactive"} =>
        /\ \A i \in 1..Len(events) :
               LET p == events[i][2]
               IN /\ events[i][1] = "remove" =>
                        \/ (i > 1 /\ events[i - 1] = Check(p, TRUE))
                        \/ (i > 2 /\ events[i - 1] = Prompt(p)
                                  /\ events[i - 2] = Check(p, TRUE))
                  /\ events[i][1] = "prompt" =>
                        (mode = "interactive" /\ i > 1 /\ events[i - 1] = Check(p, TRUE))
                  /\ events[i] = Check(p, FALSE) =>
                        (i < Len(events) => events[i + 1][1] = "check")
        /\ CheckedPaths(events)
               = SubSeq(PlanItems, 1, IF Stopped THEN item + 1 ELSE item)

\* C8 witness: an interactive run prompted for an item, removed it, and met an
\* item whose check failed
C8_Witness ==
    /\ pc = "done"
    /\ mode = "interactive"
    /\ \E i \in 1..Len(events) : events[i][1] = "prompt"
    /\ \E i \in 1..Len(events) : events[i][1] = "remove" /\ events[i][3]
    /\ \E i \in 1..Len(events) : events[i][1] = "check" /\ ~events[i][3]

\* the executor has run both loops of a plain real run to the end
RealDone == pc = "done" /\ mode = "real"

C10_OneSuccessOneFailure ==
    (RealDone /\ plan.dirs = <<>> /\ plan.files \in {<<File1, Gone>>, <<Gone, File1>>}) =>
        /\ deleted_files = <<File1>>
        /\ File1 \notin fsys
        /\ FailedPaths(failed_files) = <<Gone>>

(***************************************************************************)
(* Claims about the dry run, checked under SpecDelete and SpecPipeline.    *)
(***************************************************************************)
DryModes == {"dry", "dry_from_search"}

\* C11: a dry run, by execute_deletion(plan, true) or by
\* execute_deletion_from_search(sr, true), leaves the filesystem as it is and
\* reports every planned item as deleted: deleted_files is plan.files,
\* deleted_dirs is plan.dirs, failed_files and failed_dirs are empty; no safety
\* check, prompt or removal is issued.
C11_DryRunReportsPlan ==
    [][(pc = "exec" /\ mode \in DryModes) =>
          /\ fsys' = fsys
          /\ deleted_files' = plan.files
          /\ deleted_dirs' = plan.dirs
          /\ plan' = create_delete_plan(sr)
          /\ failed_files' = <<>>
          /\ failed_dirs' = <<>>
          /\ events' = <<>>
          /\ pc' = "done"]_vars

\* C11 witness: a dry run over a vanished file, a file in /etc and the system
\* directory /usr/bin has reported all three as deleted and removed nothing
C11_Witness ==
    /\ pc = "done"
    /\ mode = "dry"
    /\ os = "unix"
    /\ deleted_files = <<Gone, <<"etc", "app.log">> >>
    /\ deleted_dirs = << <<"usr", "bin">> >>
    /\ failed_files = <<>>
    /\ failed_dirs = <<>>
    /\ fsys = InitialFs

\* C12 (as claimed): in a dry run DeleteResult.total_size is
\* SearchResult.total_size, also on the path the command line runs
\* (execute_deletion(plan, true)), whatever became of the tree since the search.
C12_DryRunTotalFromSearch ==
    (pc = "done" /\ mode \in DryModes) => freed = sr.total_size

SubtreeBytes(d) ==
    SumOver({p \in FileNodes : p \in fsys /\ StrictlyUnder(p, d)},
            [p \in FileNodes |-> FileLen(p)])

\* C14: total_size is the sum of the lengths of the files in files plus, for
\* each entry of folders, the lengths of all regular files at any depth inside
\* it, whether or not they lie under an excluded path or an already matched
\* folder; /tmp/y/dist, holding 12 bytes directly and 14 bytes one directory
\* down, contributes at least 26.
C14_TotalSizeIsSum ==
    /\ total_size = SumSeq(files, [p \in FileNodes |-> FileLen(p)])
                      + SumSeq(folders, [d \in DirNodes |-> SubtreeBytes(d)])
    /\ \A i \in 1..Len(folders) : folders[i] = Dist => total_size >= 26

\* C14 witness: /tmp/y/dist was matched while /tmp/y/dist/node_modules is
\* excluded; the 14 bytes below the excluded directory are in the total
C14_Witness ==
    /\ pc = "searched"
    /\ config.exclude = << <<"tmp", "y", "dist", "node_modules">> >>
    /\ folders = <<Dist>>
    /\ files = <<>>
    /\ total_size = 26

(***************************************************************************)
(* Claims about the pattern matcher, checked under SpecMatch and           *)
(* SpecSearch.                                                             *)
(***************************************************************************)
\* The reference semantics of a glob: the set of positions of the text that
\* the first k characters of the pattern can reach.  * reaches every later
\* position, ? the next one, any other character the next one where the
\* text holds that character.
RECURSIVE Reach(_, _, _)
Reach(pattern, text, k) ==
    IF k = 0 THEN {0}
    ELSE LET before == Reach(pattern, text, k - 1)
             c == pattern[k]
         IN IF c = "*" THEN {j \in 0..Len(text) : \E i \in before : i <= j}
            ELSE IF c = "?" THEN {i + 1 : i \in {j \in before : j < Len(text)}}
            ELSE {i + 1 : i \in {j \in before : j < Len(text) /\ text[j + 1] = c}}

\* the match succeeds when pattern and text are exhausted together
GlobReference(pattern, text) == Len(text) \in Reach(pattern, text, Len(pattern))

\* C15 (as claimed): for every file pattern and base name, match_pattern
\* agrees with the reference glob semantics (* zero or more characters, ?
\* exactly one, any other character itself, pattern and text exhausted
\* together).
C15_MatchesLikeGlob ==
    pc = "matched" => m_result = GlobReference(m_pattern, m_name)

\* C16 (as claimed): a directory is recorded as a matched folder only if its
\* base name equals a configured folder pattern with the trailing separator
\* stripped; * and ? in a folder pattern are no wildcards.
C16_FolderMatchIsExact ==
    \A i \in 1..Len(folders) :
        \E j \in 1..Len(config.folders) :
            trim_end_matches_slash(Chars(config.folders[j])) = Chars(file_name(folders[i]))

(***************************************************************************)
(* Claims about the interactive executor, checked under SpecDelete.        *)
(***************************************************************************)
\* the position in events of the last prompt, 0 when nothing was asked
LastPrompt ==
    LET asked == {i \in 1..Len(events) : events[i][1] = "prompt"}
    IN IF asked = {} THEN 0 ELSE CHOOSE i \in asked : \A j \in asked : j <= i

\* the decision function has answered accept-all-remaining
AllGiven == \E k \in 1..Len(answers) : answers[k][2] = "all"

\* the decision function has answered abort
Aborted == answers # <<>> /\ answers[Len(answers)][2] = "quit"

AllDeleted == Range(deleted_files) \cup Range(deleted_dirs)

AllFailed == Range(FailedPaths(failed_files)) \cup Range(FailedPaths(failed_dirs))

\* the safety checks that succeeded from the item answered with accept-all on
ChecksSinceAll ==
    {i \in (LastPrompt - 1)..Len(events) : events[i][1] = "check" /\ events[i][3]}

\* C17 (as claimed): once the decision function answers accept-all for an
\* item, that item and every later item that passes the safety check is
\* removed, and the decision function is not consulted again.
C17_AcceptAllRemovesRest ==
    AllGiven =>
        /\ answers[Len(answers)][2] = "all"
        /\ \A i \in ChecksSinceAll : events[i][2] \notin fsys

\* C17, amended: once the decision function answers accept-all for an item,
\* the removal of that item and of every later item that passes the safety
\* check is issued without the decision function being consulted again, and
\* confirm_all stays set; an item whose removal succeeds is gone and reported
\* deleted, one whose removal fails stays and is reported failed.
C17_AcceptAllProceeds ==
    /\ confirm_all = AllGiven
    /\ \A k \in 1..Len(answers) : answers[k][2] = "all" => k = Len(answers)
    /\ AllGiven =>
           \A i \in ChecksSinceAll :
               LET j == IF i = LastPrompt - 1 THEN i + 2 ELSE i + 1
                   p == events[i][2]
               IN /\ j <= Len(events)
                  /\ events[j][1] = "remove"
                  /\ events[j][2] = p
                  /\ events[j][3] => (p \notin fsys /\ p \in AllDeleted)
                  /\ ~events[j][3] => p \in AllFailed

\* C17 witness: accept-all was answered for the first of three items; all
\* three were removed and the decision function was asked once
C17_Witness ==
    /\ pc = "done"
    /\ mode = "interactive"
    /\ outcome = "ok"
    /\ Len(answers) = 1
    /\ answers[1] = <<File1, "all">>
    /\ deleted_files = <<File1>>
    /\ Len(deleted_dirs) = 2
    /\ confirm_all

\* C18 (as claimed): the error returned on a user abort differs by variant
\* from the error returned for a failure of the prompt.
C18_CancellationDistinct ==
    Aborted => outcome[1] # interactive_error("io error")[1]

\* C19: after the decision function answers abort for an item, the run is
\* over with an error: the aborted item was checked and asked about but not
\* removed, no later item is checked, asked about or removed, and every item
\* removed before the abort stays removed.
C19_AbortStopsRun ==
    Aborted =>
        LET p == answers[Len(answers)][1]
        IN /\ pc = "done"
           /\ outcome = interactive_error("quit")
           /\ events[Len(events)] = Prompt(p)
           /\ events[Len(events) - 1] = Check(p, TRUE)
           /\ p \in fsys
           /\ item < Len(PlanItems)
           /\ PlanItems[item + 1] = p
           /\ Cardinality({i \in 1..Len(events) : events[i][1] = "check"}) = item + 1
           /\ \A i \in 1..Len(events) : events[i] \in {Remove(q, TRUE) : q \in AllPaths}
                                             => events[i][2] \notin fsys
           /\ AllDeleted \cap fsys = {}

\* C19 witness: the first file was removed, the run was aborted at the second
\* item, a third item was never looked at
C19_Witness ==
    /\ Aborted
    /\ pc = "done"
    /\ deleted_files = <<File1>>
    /\ File1 \notin fsys
    /\ item = 1
    /\ Len(PlanItems) = 3
    /\ PlanItems[3] \in fsys

(***************************************************************************)
(* Claims about the progress callback, checked under SpecProgress.         *)
(***************************************************************************)
\* C20: from one call of the progress callback to the next within one search,
\* over all roots, none of the five arguments decreases, and no argument of a
\* call exceeds the field of the SearchResult it reports on.
C20_ProgressMonotone ==
    /\ \A i \in 1..(Len(progress) - 1) :
           \A k \in 1..5 : progress[i][k] <= progress[i + 1][k]
    /\ \A i \in 1..Len(progress) :
           /\ progress[i][1] <= total_files_scanned
           /\ progress[i][2] <= total_dirs_scanned
           /\ progress[i][3] <= Len(files)
           /\ progress[i][4] <= Len(folders)
           /\ progress[i][5] <= total_size

\* C20 witness: the search of /m, walked twice, is over; the callback was
\* called more than once, and the calls differ in every argument but the first
\* or in the first
C20_Witness ==
    /\ pc = "searched"
    /\ Len(progress) >= 3
    /\ progress[1][4] = 10
    /\ \E i \in 1..Len(progress) : progress[i][4] = 20
    /\ \E i \in 2..Len(progress) :
           /\ progress[i][1] > progress[1][1]
           /\ progress[i][2] > progress[1][2]
           /\ progress[i][3] > progress[1][3]
           /\ progress[i][5] > progress[1][5]

(***************************************************************************)
(* Claims about entries the walker cannot read, checked under SpecFaults.  *)
(***************************************************************************)
\* the entries with a traversal-level fault: the errors of the walk, the
\* directories that cannot be listed, the links whose target is gone and every
\* other entry whose metadata cannot be read
Faulty ==
    WalkErrors \cup Unreadable \cup {p \in InitialFs : metadata(InitialFs, p) = "err"}

\* the entries the walk of a root reaches, faults apart
Reachable(root) ==
    {p \in InitialFs \ Faulty :
        /\ Under(p, root)
        /\ Len(p) - Len(root) <= max_depth(config.options)
        /\ \A d \in Unreadable : ~StrictlyUnder(p, d)}

\* the search has returned Ok(SearchResult)
SearchOk == pc = "searched"

\* C21: a traversal-level fault on an entry (an error of the walk, an
\* unreadable subdirectory, a broken symbolic link, a metadata failure) never
\* aborts the search: the faulty entry is in neither folders nor files and is
\* counted in neither scanned counter, and when the search has returned (it
\* returns Ok, there is no other exit) every other reachable entry that is not
\* excluded and not below a matched folder has been processed.
C21_FaultyEntryLeftOut ==
    /\ \A p \in Faulty :
           p \notin Range(folders) \cup Range(files) \cup Range(visited)
    /\ CountersFollowHistory
    /\ SearchOk =>
           \A i \in 1..Len(paths) : \A p \in Reachable(paths[i]) :
               \/ p \in Range(visited)
               \/ Excluded(p)
               \/ \E m \in matched_folders : StrictlyUnder(p, m)

(***************************************************************************)
(* Claims about CommandExecutor::execute, checked under SpecExecute.       *)
(***************************************************************************)
\* execute has returned
Returned == pc = "done"

\* a root path does not exist or is neither a file nor a directory
BadRoot == \E i \in 1..Len(paths) : ~validate_path(InitialFs, paths[i]).ok

\* the configuration file named on the command line does not exist, cannot be
\* read or cannot be parsed
BadConfigFile ==
    /\ args.config_file # <<>>
    /\ \/ ~validate_path(InitialFs, args.config_file[1]).ok
       \/ ~parse_config_file(InitialFs, args.config_file[1]).ok

\* the merged match specification names no folder and no file
EmptyMatchSpec ==
    /\ ~BadRoot
    /\ ~BadConfigFile
    /\ LET file_config ==
               IF args.config_file = <<>> THEN <<>>
               ELSE <<parse_config_file(InitialFs, args.config_file[1]).config>>
           merged == merge_configs(
                         load_default_config(
                             detect_project_type(InitialFs, listing, paths[1])),
                         file_config, args.clean_patterns)
       IN ~validate_config(merged).ok

\* the prompt of the interactive executor failed to read an answer
PromptFailed == answers # <<>> /\ answers[Len(answers)][2] = "io error"

\* C22 (as stated): only three conditions make execute return an error: an
\* empty match specification, a root path that does not exist or is neither a
\* file nor a directory, and an explicit user abort during interactive
\* confirmation; in every other case it returns Ok.
C22_OnlyThreeErrors ==
    (Returned /\ outcome # "ok") => (EmptyMatchSpec \/ BadRoot \/ Aborted)

\* C22 (amended): execute returns an error exactly when a root path does not
\* exist or is neither a file nor a directory, the configuration file named on
\* the command line does not exist or cannot be read or parsed, the merged
\* match specification is empty, the user aborts during interactive
\* confirmation, or the prompt fails to read an answer; in every other case,
\* whatever the number of items that failed to be deleted, it returns Ok.
C22_ErrorConditions ==
    Returned =>
        /\ outcome # "ok" <=>
               (BadRoot \/ BadConfigFile \/ EmptyMatchSpec \/ Aborted \/ PromptFailed)
        /\ BadRoot => outcome[1] \in {"PathNotFound", "Other"}
        /\ (~BadRoot /\ BadConfigFile) => outcome[1] \in {"PathNotFound", "ConfigParseError"}
        /\ (Aborted \/ PromptFailed) => outcome = interactive_error(answers[Len(answers)][2])

\* C22 witness: a real run has returned Ok although a file and a directory of
\* the plan failed to be deleted
C22_Witness ==
    /\ Returned
    /\ outcome = "ok"
    /\ mode = "real"
    /\ failed_files # <<>>
    /\ failed_dirs # <<>>
    /\ ~BadRoot

(***************************************************************************)
(* Claims about the order and the totals of a real run, checked under      *)
(* SpecDelete.                                                             *)
(***************************************************************************)
\* s is t with some positions left out
RECURSIVE IsSubseq(_, _)
IsSubseq(s, t) ==
    IF s = <<>> THEN TRUE
    ELSE IF t = <<>> THEN FALSE
    ELSE IF Head(s) = Head(t) THEN IsSubseq(Tail(s), Tail(t))
    ELSE IsSubseq(s, Tail(t))

\* the paths of the removals issued, in order
RECURSIVE RemovedPaths(_)
RemovedPaths(ev) ==
    IF ev = <<>> THEN <<>>
    ELSE IF Head(ev)[1] = "remove" THEN <<Head(ev)[2]>> \o RemovedPaths(Tail(ev))
    ELSE RemovedPaths(Tail(ev))

\* C23: in a real run, plain or interactive, every file of the plan is
\* processed before any directory, and the directories are processed in the
\* order of plan.dirs; deleted_dirs and failed_dirs each keep that order.
C23_FilesThenDirsInOrder ==
    mode \in {"real", "interactive"} =>
        LET cp == CheckedPaths(events)
            nf == Len(plan.files)
            done_dirs == SubSeq(plan.dirs, 1, Len(cp) - nf)
        IN /\ \A k \in 1..Len(cp) :
                  cp[k] = IF k <= nf THEN plan.files[k] ELSE plan.dirs[k - nf]
           /\ IsSubseq(RemovedPaths(events), plan.files \o plan.dirs)
           /\ (deleted_dirs # <<>> \/ failed_dirs # <<>>) => Len(cp) > nf
           /\ Len(cp) <= nf => (deleted_dirs = <<>> /\ failed_dirs = <<>>)
           /\ IsSubseq(deleted_dirs, done_dirs)
           /\ IsSubseq(FailedPaths(failed_dirs), done_dirs)
           /\ IsSubseq(deleted_files, plan.files)
           /\ IsSubseq(FailedPaths(failed_files), plan.files)

\* C23 witness: a real run took the file first, then the two directories in
\* plan order, the deeper one first, and removed all three
C23_Witness ==
    /\ pc = "done"
    /\ mode = "real"
    /\ plan = [files |-> <<File1>>, dirs |-> <<ABCD, AB>>]
    /\ deleted_dirs = <<ABCD, AB>>
    /\ events = <<Check(File1, TRUE), Remove(File1, TRUE), Check(ABCD, TRUE),
                  Remove(ABCD, TRUE), Check(AB, TRUE), Remove(AB, TRUE)>>

\* the bytes of the regular files that are no longer on disk
BytesGone ==
    SumOver({p \in FileNodes : p \notin fsys}, [p \in FileNodes |-> FileLen(p)])

\* C24: in a real run DeleteResult.total_size is the sum, over exactly the
\* items that reach deleted_files or deleted_dirs, of the size read between the
\* safety check and the removal of the item; an item that fails (or is
\* skipped) adds nothing.  The total is thus the bytes the run took off disk.
C24_TotalIsObservedSizes ==
    /\ [](mode \in {"real", "interactive"} => freed = BytesGone)
    /\ [][Stepping =>
             LET p == Current
                 observed == IF item < Len(plan.files)
                             THEN metadata_len_or_0(fsys, p)
                             ELSE calculate_dir_size(fsys, p)
                 deleted == \/ deleted_files' = Append(deleted_files, p)
                            \/ deleted_dirs' = Append(deleted_dirs, p)
             IN /\ freed' = IF deleted THEN freed + observed ELSE freed
                /\ (failed_files' # failed_files \/ failed_dirs' # failed_dirs)
                       => (~deleted /\ freed' = freed)]_vars

\* C24 witness: a real run removed /a/file1.txt (12 bytes) and /a/b (14 bytes
\* in /a/b/c/in.txt) and failed to remove /a/keep.log: the total is 26
C24_Witness ==
    /\ pc = "done"
    /\ mode = "real"
    /\ deleted_files = <<File1>>
    /\ FailedPaths(failed_files) = << <<"a", "keep.log">> >>
    /\ deleted_dirs = <<AB>>
    /\ freed = 26

(***************************************************************************)
(* Claims about the size and age bounds, checked under SpecSearch.         *)
(***************************************************************************)
\* lo <= v <= hi, where a bound that is None does not bind
Within(v, lo, hi) ==
    /\ (lo = <<>> \/ v >= lo[1])
    /\ (hi = <<>> \/ v <= hi[1])

\* the size and the age of the file e lie within the bounds of the options
InsideBounds(e) ==
    /\ Within(FileLen(e), config.options.min_size, config.options.max_size)
    /\ AgeDays(e) # <<>> =>
           Within(AgeDays(e)[1], config.options.min_age_days,
                  config.options.max_age_days)

\* C25: a visited file whose size lies outside [min_size, max_size] or whose
\* age in whole days lies outside [min_age_days, max_age_days] (bounds
\* inclusive) is counted in total_files_scanned but is not pushed to files and
\* adds nothing to total_size, whatever the file patterns; a file inside the
\* bounds that matches a file pattern is pushed exactly once and its size is
\* added once.
C25_BoundsGateFiles ==
    [][total_files_scanned' # total_files_scanned =>
          LET e == visited'[Len(visited')]
              hit == /\ InsideBounds(e)
                     /\ \E i \in 1..Len(config.files) :
                            match_pattern(config.files[i], file_name(e))
          IN /\ total_files_scanned' = total_files_scanned + 1
             /\ e \in FileNodes
             /\ files' = IF hit THEN Append(files, e) ELSE files
             /\ total_size' = IF hit THEN total_size + FileLen(e) ELSE total_size]_vars

\* C25 witness: with bounds 5..12 bytes and at least one day, the walk of /tmp
\* counted four files; file.txt (5 bytes) was pushed, b.txt (14 bytes) and
\* app.log (12 bytes, modified today) match a pattern but were not
C25_Witness ==
    /\ pc = "searched"
    /\ paths = << <<"tmp">> >>
    /\ config.options.min_size = <<5>>
    /\ config.options.max_size = <<12>>
    /\ config.options.min_age_days = <<1>>
    /\ total_files_scanned = 4
    /\ {<<"tmp", "y", "dist", "node_modules", "b.txt">>, <<"tmp", "y", "app.log">>}
           \subseteq Range(visited)
    /\ files = << <<"tmp", "x", "node_modules", "sub", "file.txt">> >>
    /\ total_size = 5

(***************************************************************************)
(* Claims about when the progress callback is called, checked under        *)
(* SpecProgress.                                                           *)
(***************************************************************************)
\* C26: the progress callback is called on every visit of a directory that is
\* newly matched (and on every ProgressEveryDirs-th directory scanned), and is
\* not called on a visit of a directory that neither matches nor reaches that
\* boundary.
C26_CallbackOnNewMatch ==
    [][total_dirs_scanned' # total_dirs_scanned =>
          (progress' # progress <=>
               \/ Len(folders') > Len(folders)
               \/ total_dirs_scanned' % ProgressEveryDirs = 0)]_vars

(***************************************************************************)
(* Claims about repeated and overlapping roots, checked under SpecSearch.  *)
(***************************************************************************)
\* no element occurs twice in the sequence s
NoRepeat(s) == \A i, j \in 1..Len(s) : s[i] = s[j] => i = j

\* C27: within one search the matched-folder set only grows and a directory
\* is recorded as matched at most once: no path occurs twice in folders or in
\* files and no size is added twice, for every list of roots, also one that
\* repeats a root or holds a root together with one of its ancestors.
C27_MatchedAtMostOnce ==
    /\ NoRepeat(folders)
    /\ NoRepeat(files)
    /\ Range(folders) = matched_folders
    /\ total_size =
           SumOver(Range(files), [p \in FileNodes |-> FileLen(p)])
           + SumOver(Range(folders),
                     [d \in DirNodes |-> calculate_dir_size(InitialFs, d)])

(***************************************************************************)
(* Claims about skipped items, checked under SpecDelete.                   *)
(***************************************************************************)
\* the paths of the prompts, in order
RECURSIVE PromptedPaths(_)
PromptedPaths(ev) ==
    IF ev = <<>> THEN <<>>
    ELSE IF Head(ev)[1] = "prompt" THEN <<Head(ev)[2]>> \o PromptedPaths(Tail(ev))
    ELSE PromptedPaths(Tail(ev))

\* the number of items of the sequence s the user chose to skip
Skipped(s) ==
    Cardinality({k \in 1..Len(answers) :
                    answers[k][2] = "skip" /\ answers[k][1] \in Range(s)})

\* the interactive run came to its end without an abort
InteractiveOk == pc = "done" /\ mode = "interactive" /\ outcome = "ok"

\* C28: in the interactive executor the step that skips an item removes
\* nothing, records the item in no deleted or failed list and goes on to the
\* next item; after a run that was not aborted,
\* deleted_files.len() + failed_files.len() + (skipped files) = plan.files.len()
\* and likewise for the directories; every item that is prompted for is
\* prompted for once (the prompts follow the plan, one per item at most, and
\* each has one answer).
C28_SkipLeavesNoTrace ==
    /\ [](InteractiveOk =>
              /\ Len(deleted_files) + Len(failed_files) + Skipped(plan.files)
                     = Len(plan.files)
              /\ Len(deleted_dirs) + Len(failed_dirs) + Skipped(plan.dirs)
                     = Len(plan.dirs))
    /\ [](mode = "interactive" =>
              /\ IsSubseq(PromptedPaths(events), plan.files \o plan.dirs)
              /\ PromptedPaths(events) = [k \in 1..Len(answers) |-> answers[k][1]])
    /\ [][(answers' # answers /\ answers'[Len(answers')][2] = "skip") =>
              /\ UNCHANGED <<fsys, deleted_files, deleted_dirs, failed_files,
                             failed_dirs, freed>>
              /\ events' = events \o <<Check(Current, TRUE), Prompt(Current)>>
              /\ item' = item + 1
              /\ pc' = "exec"]_vars

\* C28 witness: an interactive run skipped /a/file1.txt, removed /etc/app.log
\* and skipped /a/b/c/d; it returned Ok and the skipped items are on disk
C28_Witness ==
    /\ InteractiveOk
    /\ plan = [files |-> <<File1, <<"etc", "app.log">> >>, dirs |-> <<ABCD>>]
    /\ answers = << <<File1, "skip">>, << <<"etc", "app.log">>, "yes">>,
                    <<ABCD, "skip">> >>
    /\ deleted_files = << <<"etc", "app.log">> >>
    /\ failed_files = <<>>
    /\ deleted_dirs = <<>>
    /\ failed_dirs = <<>>
    /\ {File1, ABCD} \subseteq fsys

(***************************************************************************)
(* Claims about nested directories in a plan, checked under SpecDelete.    *)
(***************************************************************************)
\* no item is attempted after the removal of a directory of the plan above it
DescendantsFirst ==
    \A i, j \in 1..Len(events) :
        (/\ i < j
         /\ events[i][1] = "remove"
         /\ events[i][3]
         /\ events[j][1] = "check") => ~StrictlyUnder(events[j][2], events[i][2])

\* the directories that existed when the run began and failed as not found
LostDirs ==
    {failed_dirs[k][1] : k \in {n \in 1..Len(failed_dirs) :
        /\ failed_dirs[n][1] \in InitialFs
        /\ failed_dirs[n][2] = <<"Path not found: ", failed_dirs[n][1]>>}}

RealAfterDryDone == pc = "done" /\ mode = "real" /\ reports # <<>>

\* C30: for the same plan and the same initial filesystem, what a dry run
\* reports as deleted is what a plain real run attempts:
\* dry.deleted_files = real.deleted_files + paths(real.failed_files) as sets
\* (and as many entries), likewise for the directories; the dry run makes no
\* safety check, so it reports as deleted also what the real run rejects.
C30_DryReportsWhatRealAttempts ==
    RealAfterDryDone =>
        LET dry == reports[1]
        IN /\ dry.fsys = InitialFs
           /\ Range(dry.deleted_files)
                  = Range(deleted_files) \cup Range(FailedPaths(failed_files))
           /\ Range(dry.deleted_dirs)
                  = Range(deleted_dirs) \cup Range(FailedPaths(failed_dirs))
           /\ Len(dry.deleted_files) = Len(deleted_files) + Len(failed_files)
           /\ Len(dry.deleted_dirs) = Len(deleted_dirs) + Len(failed_dirs)
           /\ \A i \in 1..Len(events) :
                  events[i] = Check(events[i][2], FALSE) =>
                      events[i][2] \in Range(dry.deleted_files)
                                       \cup Range(dry.deleted_dirs)

\* C30 witness: the dry run reported /a/file1.txt, the vanished /a/gone.txt
\* and /a/b as deleted; the real run removed /a/file1.txt and /a/b and
\* rejected /a/gone.txt
C30_Witness ==
    /\ RealAfterDryDone
    /\ reports[1].deleted_files = <<File1, Gone>>
    /\ reports[1].deleted_dirs = <<AB>>
    /\ deleted_files = <<File1>>
    /\ FailedPaths(failed_files) = <<Gone>>
    /\ deleted_dirs = <<AB>>
    /\ events[3] = Check(Gone, FALSE)

====
